---- MODULE Spec2Model ----
(***************************************************************************)
(* Model of the product catalog service: the catalog HTTP handlers         *)
(* (HandleGet, HandleGetSpecific), the query-parameter and product-code    *)
(* validators, the response assembly (prepareResponse) and the product     *)
(* repository they call; the category handlers (HandleGet, HandlePost)     *)
(* with the category repository; and the server running the handlers of    *)
(* concurrent requests interleaved.                                        *)
(*                                                                         *)
(* A Go string is a sequence of characters; a character is a one-character *)
(* TLA+ string, and a non-ASCII rune is a token such as "U+0663".          *)
(* A Go slice is a record [isNil, elems]: a nil slice and an empty slice   *)
(* both have length 0 but are different values.                            *)
(***************************************************************************)
EXTENDS Integers, Sequences, FiniteSets, TLC

VARIABLES
    store,     \* the product rows of the database, in ascending id order
    op,        \* the operation performed last ("none" after construction)
    req,       \* the inputs of that operation
    filters,   \* the SearchFilters built by validateProductFilters
    valid,     \* the result of validateProductCode
    calls,     \* the repository calls made while serving the request
    status,    \* the HTTP status written (0: nothing written)
    errMsg,    \* the message of an error response
    asm,       \* the arguments of the last call of prepareResponse
    resp,      \* the Response built by prepareResponse
    body,      \* the JSON object written by api.OKResponse
    repoErr,   \* err.Error() of the error the repository returned ("": nil)
    catStore,  \* the category rows of the database, in ascending id order
    catSeq,    \* the last value the id sequence of the category table gave
    conns,     \* the requests in flight, one per connection
    listed,    \* the products GormRepo.List returned when called on its own
    proc,      \* the process: where main stands, the listener, the database
    pages      \* the pages a caller of GormRepo.List has fetched so far

vars ==
    <<store, op, req, filters, valid, calls, status, errMsg, asm, resp, body,
      repoErr, catStore, catSeq, conns, listed, proc, pages>>

\* the state of the concurrent server
serverVars == <<catStore, catSeq, conns, proc>>

----------------------------------------------------------------------------
(* Bounds of the model. *)

\* longest raw query string drawn for the validators
MaxLen == 3
\* most single-character edits applied to a well-formed product code
MaxEdits == 1
\* longest product list handed to prepareResponse
MaxProducts == 2
\* most variants a product carries
MaxVariants == 2
\* most rows in the product table
MaxStore == 3
\* most pages a caller fetches one after the other
MaxPages == 5
\* most values of the id sequence that inserts which stored no row have used
MaxSkippedIDs == 2

----------------------------------------------------------------------------
(* Strings. *)

Digits == <<"0", "1", "2", "3", "4", "5", "6", "7", "8", "9">>

DigitSet == {Digits[i] : i \in 1..10}

DigitVal(c) == (CHOOSE i \in 1..10 : Digits[i] = c) - 1

Strs(A, n) == UNION {[1..k -> A] : k \in 0..n}

Tail2(s, i) == SubSeq(s, i, Len(s))

\* strings.IndexAny(s, chars): first position (1-based) of a character of
\* chars in s, 0 when there is none
IndexAny(s, chars) ==
    IF \E i \in 1..Len(s) : s[i] \in chars
    THEN CHOOSE i \in 1..Len(s) :
             s[i] \in chars /\ \A j \in 1..(i - 1) : s[j] \notin chars
    ELSE 0

----------------------------------------------------------------------------
(* strconv.Atoi / strconv.ParseInt(s, 10, 64), for strings shorter than    *)
(* 19 bytes (every string of the model): an optional sign, then at least   *)
(* one ASCII digit and nothing else.  The result is [ok, n].               *)

RECURSIVE AtoiDigits(_, _)
AtoiDigits(s, n) ==
    IF s = <<>> THEN [ok |-> TRUE, n |-> n]
    ELSE IF Head(s) \notin DigitSet THEN [ok |-> FALSE, n |-> 0]
    ELSE AtoiDigits(Tail(s), n * 10 + DigitVal(Head(s)))

Atoi(s) ==
    IF s = <<>> THEN [ok |-> FALSE, n |-> 0]
    ELSE LET signed == Head(s) \in {"-", "+"}
             ds     == IF signed THEN Tail(s) ELSE s
             r      == AtoiDigits(ds, 0)
         IN  IF ds = <<>> \/ ~r.ok THEN [ok |-> FALSE, n |-> 0]
             ELSE [ok |-> TRUE, n |-> IF Head(s) = "-" THEN 0 - r.n ELSE r.n]

----------------------------------------------------------------------------
(* decimal.Decimal is the struct {value *big.Int; exp int32}, the number   *)
(* value * 10^exp.  The model keeps the coefficient, the exponent and      *)
(* which big.Int the value pointer refers to: "Zero" is the one allocated  *)
(* for the package variable decimal.Zero, "heap" any other allocation,     *)
(* "nil" the pointer of the zero-valued struct Decimal{}.                  *)

Dec(ref, coef, exp) == [ref |-> ref, coef |-> coef, exp |-> exp]

\* var Zero = New(0, 1)
DecimalZero == Dec("Zero", 0, 1)

\* Decimal{}
DecimalZeroValue == Dec("nil", 0, 0)

\* d1 == d2 on the struct: the same pointer and the same exponent.  Two
\* "heap" values are compared nowhere in the program.
DecimalStructEq(d1, d2) ==
    /\ d1.ref = d2.ref
    /\ d1.ref # "heap"
    /\ d1.exp = d2.exp

Sign(n) == IF n > 0 THEN 1 ELSE IF n < 0 THEN 0 - 1 ELSE 0

RECURSIVE Pow10(_)
Pow10(k) == IF k <= 0 THEN 1 ELSE 10 * Pow10(k - 1)

\* Decimal.Cmp: both values rescaled to the smaller exponent, then the
\* coefficients compared.  Rescaling multiplies by a positive power of ten,
\* so against a zero coefficient the result is the sign of the other one.
DecimalCmp(d1, d2) ==
    IF d1.exp = d2.exp THEN Sign(d1.coef - d2.coef)
    ELSE IF d2.coef = 0 THEN Sign(d1.coef)
    ELSE IF d1.coef = 0 THEN 0 - Sign(d2.coef)
    ELSE LET e == IF d1.exp < d2.exp THEN d1.exp ELSE d2.exp
         IN  Sign(d1.coef * Pow10(d1.exp - e) - d2.coef * Pow10(d2.exp - e))

GreaterThan(d1, d2) == DecimalCmp(d1, d2) = 1

LessThan(d1, d2) == DecimalCmp(d1, d2) = 0 - 1

\* decimal.NewFromString: an optional exponent after the first 'e' or 'E',
\* at most one '.', and the remaining characters parsed as one integer.
\* The result is [ok, d]; d is a freshly allocated value.
NewFromString(value) ==
    LET bad    == [ok |-> FALSE, d |-> DecimalZeroValue]
        eIndex == IndexAny(value, {"e", "E"})
        expInt == IF eIndex = 0 THEN [ok |-> TRUE, n |-> 0]
                  ELSE Atoi(Tail2(value, eIndex + 1))
        mant   == IF eIndex = 0 THEN value ELSE SubSeq(value, 1, eIndex - 1)
        dots   == {i \in 1..Len(mant) : mant[i] = "."}
        pIndex == IF dots = {} THEN 0 ELSE CHOOSE i \in dots : TRUE
        intStr == IF pIndex = 0 THEN mant
                  ELSE SubSeq(mant, 1, pIndex - 1) \o Tail2(mant, pIndex + 1)
        frac   == IF pIndex = 0 THEN 0 ELSE Len(mant) - pIndex
        parsed == Atoi(intStr)
    IN  IF ~expInt.ok THEN bad
        ELSE IF Cardinality(dots) > 1 THEN bad
        ELSE IF ~parsed.ok THEN bad
        ELSE [ok |-> TRUE, d |-> Dec("heap", parsed.n, expInt.n - frac)]

----------------------------------------------------------------------------
(* products.SearchFilters and validateProductFilters. *)

DefaultOffset == 0
DefaultLimit == 10
MaxLimit == 100

\* a *decimal.Decimal: nil, or a pointer to d
NilDecimal == [isNil |-> TRUE, d |-> DecimalZeroValue]
PtrTo(d) == [isNil |-> FALSE, d |-> d]

\* FilterOffset without the test o >= 0
FilterOffsetUnchecked(offset) ==
    IF offset # <<>>
    THEN LET o == Atoi(offset)
         IN  IF o.ok THEN o.n ELSE DefaultOffset
    ELSE DefaultOffset

FilterOffset(offset) ==
    IF offset # <<>>
    THEN LET o == Atoi(offset)
         IN  IF o.ok /\ o.n >= 0 THEN o.n ELSE DefaultOffset
    ELSE DefaultOffset

\* FilterLimit capping a limit above MaxLimit instead of resetting it
FilterLimitCapped(limit) ==
    IF limit # <<>>
    THEN LET l == Atoi(limit)
         IN  IF l.ok /\ l.n > 0
             THEN (IF l.n <= MaxLimit THEN l.n ELSE MaxLimit)
             ELSE DefaultLimit
    ELSE DefaultLimit

\* FilterLimit without the test l <= 100
FilterLimitUnbounded(limit) ==
    IF limit # <<>>
    THEN LET l == Atoi(limit)
         IN  IF l.ok /\ l.n > 0 THEN l.n ELSE DefaultLimit
    ELSE DefaultLimit

FilterLimit(limit) ==
    IF limit # <<>>
    THEN LET l == Atoi(limit)
         IN  IF l.ok /\ l.n > 0 /\ l.n <= MaxLimit THEN l.n ELSE DefaultLimit
    ELSE DefaultLimit

\* FilterPriceLessThan accepting a price of zero
FilterPriceNotNegative(priceLimit) ==
    IF priceLimit # <<>>
    THEN LET p == NewFromString(priceLimit)
         IN  IF p.ok /\ ~LessThan(p.d, DecimalZero) THEN PtrTo(p.d)
             ELSE NilDecimal
    ELSE NilDecimal

FilterPriceLessThan(priceLimit) ==
    IF priceLimit # <<>>
    THEN LET p == NewFromString(priceLimit)
         IN  IF p.ok /\ GreaterThan(p.d, DecimalZero) THEN PtrTo(p.d)
             ELSE NilDecimal
    ELSE NilDecimal

FilterCategory(category) == IF category # <<>> THEN category ELSE <<>>

validateProductFilters(offset, limit, priceLimit, category) ==
    [Offset        |-> FilterOffset(offset),
     Limit         |-> FilterLimit(limit),
     Category      |-> FilterCategory(category),
     PriceLessThan |-> FilterPriceLessThan(priceLimit)]

\* SearchFilters{}: the value of the variable before any filters are built
NoFilters ==
    [Offset |-> 0, Limit |-> 0, Category |-> <<>>, PriceLessThan |-> NilDecimal]

----------------------------------------------------------------------------
(* validateProductCode: regexp.MatchString(`^PROD\d{3}$`, code).  The      *)
(* pattern is a sequence of items; without flags ^ matches at the start of *)
(* the text only, $ at the end of the text only, and \d is [0-9].          *)

CodeDigits == 3

ReBegin == [kind |-> "begin", ch |-> ""]
ReEnd == [kind |-> "end", ch |-> ""]
ReDigit == [kind |-> "digit", ch |-> ""]
ReLit(c) == [kind |-> "lit", ch |-> c]
ReRepeat(item, n) == [i \in 1..n |-> item]

\* the pattern without its final $
ProductCodePatternOpenEnd ==
    <<ReBegin, ReLit("P"), ReLit("R"), ReLit("O"), ReLit("D")>>
        \o ReRepeat(ReDigit, CodeDigits)

ProductCodePattern ==
    <<ReBegin, ReLit("P"), ReLit("R"), ReLit("O"), ReLit("D")>>
        \o ReRepeat(ReDigit, CodeDigits) \o <<ReEnd>>

\* does pattern[i..] match text starting after its first pos characters
RECURSIVE MatchAt(_, _, _, _)
MatchAt(pattern, text, i, pos) ==
    IF i > Len(pattern) THEN TRUE
    ELSE LET it == pattern[i]
         IN  CASE it.kind = "begin" ->
                     pos = 0 /\ MatchAt(pattern, text, i + 1, pos)
               [] it.kind = "end" ->
                     pos = Len(text) /\ MatchAt(pattern, text, i + 1, pos)
               [] it.kind = "lit" ->
                     /\ pos < Len(text)
                     /\ text[pos + 1] = it.ch
                     /\ MatchAt(pattern, text, i + 1, pos + 1)
               [] it.kind = "digit" ->
                     /\ pos < Len(text)
                     /\ text[pos + 1] \in DigitSet
                     /\ MatchAt(pattern, text, i + 1, pos + 1)

\* regexp.MatchString: the pattern matches some substring of the text
MatchString(pattern, text) ==
    \E start \in 0..Len(text) : MatchAt(pattern, text, 1, start)

validateProductCode(code) ==
    IF code = <<>> THEN FALSE
    ELSE MatchString(ProductCodePattern, code)

----------------------------------------------------------------------------
(* Slices and the entities of package models. *)

NilSlice == [isNil |-> TRUE, elems |-> <<>>]
Slice(elems) == [isNil |-> FALSE, elems |-> elems]
SliceLen(s) == Len(s.elems)

\* models.Category{}: the four fields of the struct, Products being the nil
\* slice
ZeroCategory == [ID |-> 0, Code |-> <<>>, Name |-> "", Products |-> NilSlice]

\* models.Product{}
ZeroProduct ==
    [ID |-> 0, Code |-> <<>>, Price |-> DecimalZeroValue,
     Category |-> ZeroCategory, Variants |-> NilSlice]

\* Decimal.InexactFloat64: the float64 nearest to coef * 10^exp.  Within the
\* prices of the model this is the number itself, written here with the
\* trailing zeros of the coefficient removed, so that 100.50 and 100.5 give
\* the same float.
RECURSIVE InexactFloat64(_)
InexactFloat64(d) ==
    IF d.coef = 0 THEN [coef |-> 0, exp |-> 0]
    ELSE IF d.coef % 10 = 0
         THEN InexactFloat64([d EXCEPT !.coef = d.coef \div 10, !.exp = d.exp + 1])
         ELSE [coef |-> d.coef, exp |-> d.exp]

----------------------------------------------------------------------------
(* prepareResponse and the JSON encoding of catalog.Response. *)

\* the loop of lines 70-79: one entry per product
RespProducts(ps) ==
    [i \in 1..Len(ps) |->
        [Code     |-> ps[i].Code,
         Price    |-> InexactFloat64(ps[i].Price),
         Category |-> ps[i].Category.Name]]

\* the counter counting the products that have variants
RECURSIVE CountProductsWithVariants(_)
CountProductsWithVariants(ps) ==
    IF ps = <<>> THEN 0
    ELSE (IF SliceLen(Head(ps).Variants) > 0 THEN 1 ELSE 0)
         + CountProductsWithVariants(Tail(ps))

\* the counter of lines 69-79
RECURSIVE UniqueProductCount(_)
UniqueProductCount(ps) ==
    IF ps = <<>> THEN 0
    ELSE (IF SliceLen(Head(ps).Variants) > 0
          THEN SliceLen(Head(ps).Variants) ELSE 0)
         + UniqueProductCount(Tail(ps))

\* the body of the loop of lines 88-93, on a copy of the variant
ResolveVariant(variant, product) ==
    IF DecimalStructEq(variant.Price, DecimalZero)
    THEN [variant EXCEPT !.Price = product.Price]
    ELSE variant

\* RespVariants without the test of includeVariants
RespVariantsAlways(ps, includeVariants) ==
    IF Len(ps) > 0
    THEN LET first == ps[1]
         IN  Slice([j \in 1..SliceLen(first.Variants) |->
                       ResolveVariant(first.Variants.elems[j], first)])
    ELSE NilSlice

\* RespVariants taking the variants of the last product
RespVariantsOfLast(ps, includeVariants) ==
    IF includeVariants /\ Len(ps) > 0
    THEN LET last == ps[Len(ps)]
         IN  Slice([j \in 1..SliceLen(last.Variants) |->
                       ResolveVariant(last.Variants.elems[j], last)])
    ELSE NilSlice

\* lines 86-94
RespVariants(ps, includeVariants) ==
    IF includeVariants /\ Len(ps) > 0
    THEN LET first == ps[1]
         IN  Slice([j \in 1..SliceLen(first.Variants) |->
                       ResolveVariant(first.Variants.elems[j], first)])
    ELSE NilSlice

\* The memory the loop of lines 88-93 works on: elems is the backing array
\* of dbProducts[0].Variants, variant the iteration variable of the range
\* clause (<<>> before the first iteration declares it), out the slice
\* resp.Variants.
LoopMemory(product) ==
    [elems |-> product.Variants.elems, variant |-> <<>>, out |-> <<>>]

\* the places a variant can be read from and written to
VariantCell == [at |-> "variant", j |-> 0]
ElementCell(j) == [at |-> "element", j |-> j]

Load(mem, cell) ==
    IF cell.at = "element" THEN mem.elems[cell.j] ELSE mem.variant[1]

\* cell.Price = price
StorePrice(mem, cell, price) ==
    IF cell.at = "element"
    THEN [mem EXCEPT !.elems[cell.j].Price = price]
    ELSE [mem EXCEPT !.variant[1].Price = price]

\* the range clause written `for j := range ...` with variant standing for
\* &dbProducts[0].Variants[j]: the body works on the element itself
RangeVariantByPointer(mem, j) ==
    [mem |-> mem, cell |-> ElementCell(j)]

\* `for _, variant := range dbProducts[0].Variants` at iteration j: element
\* j is assigned to the iteration variable, a variable of its own, and the
\* body works on that variable
RangeVariant(mem, j) ==
    [mem |-> [mem EXCEPT !.variant = <<mem.elems[j]>>], cell |-> VariantCell]

\* lines 89-92 on the variant in the given cell: the test, the assignment
\* of the product's price, and the append of the cell's value
VariantLoopBody(mem, cell, product) ==
    LET priced == IF DecimalStructEq(Load(mem, cell).Price, DecimalZero)
                  THEN StorePrice(mem, cell, product.Price)
                  ELSE mem
    IN  [priced EXCEPT !.out = Append(priced.out, Load(priced, cell))]

\* the loop from iteration j on
RECURSIVE VariantLoop(_, _, _)
VariantLoop(mem, j, product) ==
    IF j > Len(mem.elems) THEN mem
    ELSE LET r == RangeVariant(mem, j)
         IN  VariantLoop(VariantLoopBody(r.mem, r.cell, product), j + 1,
                         product)

\* the slice dbProducts as prepareResponse leaves it to its caller: lines
\* 70-79 only read it, lines 86-94 run the loop on the first product, whose
\* Variants are then what the loop left in their backing array
InputAfter(dbProducts, includeVariants) ==
    IF includeVariants /\ SliceLen(dbProducts) > 0
    THEN LET first == dbProducts.elems[1]
         IN  [dbProducts EXCEPT
                 !.elems[1].Variants.elems =
                     VariantLoop(LoopMemory(first), 1, first).elems]
    ELSE dbProducts

\* prepareResponse collecting the entries with append into a nil slice
prepareResponseAppending(dbProducts, includeVariants) ==
    [Products          |-> IF SliceLen(dbProducts) = 0 THEN NilSlice
                           ELSE Slice(RespProducts(dbProducts.elems)),
     ProductsAvailable |-> UniqueProductCount(dbProducts.elems),
     Variants          |-> RespVariants(dbProducts.elems, includeVariants)]

\* prepareResponse of package catalog
prepareResponse(dbProducts, includeVariants) ==
    [Products          |-> Slice(RespProducts(dbProducts.elems)),
     ProductsAvailable |-> UniqueProductCount(dbProducts.elems),
     Variants          |-> RespVariants(dbProducts.elems, includeVariants)]

\* Response{}
NoResponse ==
    [Products |-> NilSlice, ProductsAvailable |-> 0, Variants |-> NilSlice]

\* EncodeJSON with the tag of Variants read as `json:"variants"`
EncodeJSONKeepEmpty(r) ==
    [keys |-> {"products", "products_available", "variants"},
     products           |-> r.Products,
     products_available |-> r.ProductsAvailable,
     variants           |-> r.Variants.elems]

\* encoding/json on Response: "products" and "products_available" are always
\* written, a nil slice as null; "variants" carries omitempty and is left
\* out when the slice has length 0.
EncodeJSON(r) ==
    [keys |-> {"products", "products_available"}
                 \cup (IF SliceLen(r.Variants) > 0 THEN {"variants"} ELSE {}),
     products           |-> r.Products,
     products_available |-> r.ProductsAvailable,
     variants           |-> r.Variants.elems]

\* nothing written
NoBody ==
    [keys |-> {}, products |-> NilSlice, products_available |-> 0,
     variants |-> <<>>]

----------------------------------------------------------------------------
(* products.GormRepo over the product table. *)

RECURSIVE OrderByID(_)
OrderByID(rows) ==
    IF rows = {} THEN <<>>
    ELSE LET first == CHOOSE r \in rows : \A q \in rows : r.ID <= q.ID
         IN  <<first>> \o OrderByID(rows \ {first})

Min(a, b) == IF a < b THEN a ELSE b

\* the WHERE clauses with `price <= ?`
MatchesAtThreshold(p, f) ==
    /\ f.Category # <<>> => p.Category.Code = f.Category
    /\ ~f.PriceLessThan.isNil => ~GreaterThan(p.Price, f.PriceLessThan.d)

\* the WHERE clauses of lines 42-49
Matches(p, f) ==
    /\ f.Category # <<>> => p.Category.Code = f.Category
    /\ ~f.PriceLessThan.isNil => LessThan(p.Price, f.PriceLessThan.d)

\* List with the window closed one row late
RepoListThroughLimit(rows, f) ==
    LET matching == OrderByID({p \in rows : Matches(p, f)})
    IN  Slice(SubSeq(matching, f.Offset + 1,
                     Min(Len(matching), f.Offset + f.Limit + 1)))

\* GormRepo.List without a database error
RepoList(rows, f) ==
    LET matching == OrderByID({p \in rows : Matches(p, f)})
    IN  Slice(SubSeq(matching, f.Offset + 1,
                     Min(Len(matching), f.Offset + f.Limit)))

\* GetByCode with the Where clause lost: the first row of the table
RepoGetByCodeAnyRow(rows, code) ==
    LET found == OrderByID(rows)
    IN  IF found = <<>> THEN ZeroProduct
        ELSE [found[1] EXCEPT !.Category = ZeroCategory]

\* GormRepo.GetByCode without a database error: the first row with that
\* code, its Variants loaded and its Category not, or the zero Product
RepoGetByCode(rows, code) ==
    LET found == OrderByID({p \in rows : p.Code = code})
    IN  IF found = <<>> THEN ZeroProduct
        ELSE [found[1] EXCEPT !.Category = ZeroCategory]

----------------------------------------------------------------------------
(* The handlers of package catalog.  Each is given as the outcome of one   *)
(* request: what it hands to the repository and what it writes.            *)

StatusOK == 200
StatusBadRequest == 400
StatusInternalServerError == 500

InvalidCodeMessage ==
    "Invalid product code format. Expected format: PROD followed by 3 digits (e.g., PROD001)"

\* err.Error() of a failed repository call
DbErrorMessage == "database error"

NoAssembly ==
    [called |-> FALSE, dbProducts |-> NilSlice, includeVariants |-> FALSE]
Assembly(ps, includeVariants) ==
    [called |-> TRUE, dbProducts |-> ps, includeVariants |-> includeVariants]

ListCall(f) == [fn |-> "List", filters |-> f, code |-> <<>>]
GetByCodeCall(code) == [fn |-> "GetByCode", filters |-> NoFilters, code |-> code]

\* api.ErrorResponse(w, code, message)
ErrorResponse(code, message) ==
    [status |-> code, errMsg |-> message, resp |-> NoResponse,
     body |-> NoBody, asm |-> NoAssembly]

\* api.OKResponse(w, prepareResponse(ps, includeVariants))
OKResponse(ps, includeVariants) ==
    LET r == prepareResponse(ps, includeVariants)
    IN  [status |-> StatusOK, errMsg |-> "", resp |-> r,
         body |-> EncodeJSON(r), asm |-> Assembly(ps, includeVariants)]

\* Handler.HandleGet; dbErr: the repository call fails
HandleGetOutcome(rows, offset, limit, priceLimit, category, dbErr) ==
    LET f == validateProductFilters(offset, limit, priceLimit, category)
        w == IF dbErr
             THEN ErrorResponse(StatusInternalServerError, DbErrorMessage)
             ELSE OKResponse(RepoList(rows, f), FALSE)
    IN  [filters |-> f, valid |-> FALSE, calls |-> <<ListCall(f)>>,
         err |-> IF dbErr THEN DbErrorMessage ELSE "", w |-> w]

\* HandleGetSpecific asking the repository before it looks at the code
HandleGetSpecificLateCheck(rows, code, dbErr) ==
    IF dbErr
    THEN [filters |-> NoFilters, valid |-> validateProductCode(code),
          calls |-> <<GetByCodeCall(code)>>, err |-> DbErrorMessage,
          w |-> ErrorResponse(StatusInternalServerError, DbErrorMessage)]
    ELSE IF ~validateProductCode(code)
    THEN [filters |-> NoFilters, valid |-> FALSE,
          calls |-> <<GetByCodeCall(code)>>, err |-> "",
          w |-> ErrorResponse(StatusBadRequest, InvalidCodeMessage)]
    ELSE [filters |-> NoFilters, valid |-> TRUE,
          calls |-> <<GetByCodeCall(code)>>, err |-> "",
          w |-> OKResponse(Slice(<<RepoGetByCode(rows, code)>>), TRUE)]

\* Handler.HandleGetSpecific; dbErr: the repository call fails
HandleGetSpecificOutcome(rows, code, dbErr) ==
    IF ~validateProductCode(code)
    THEN [filters |-> NoFilters, valid |-> FALSE, calls |-> <<>>, err |-> "",
          w |-> ErrorResponse(StatusBadRequest, InvalidCodeMessage)]
    ELSE [filters |-> NoFilters, valid |-> TRUE,
          calls |-> <<GetByCodeCall(code)>>,
          err |-> IF dbErr THEN DbErrorMessage ELSE "",
          w |-> IF dbErr
                THEN ErrorResponse(StatusInternalServerError, DbErrorMessage)
                ELSE OKResponse(Slice(<<RepoGetByCode(rows, code)>>), TRUE)]

----------------------------------------------------------------------------
(* The values the model draws its inputs from. *)

\* categories as Preload("Category") fills them: their Products are not
\* loaded
Clothing ==
    [ID |-> 1, Code |-> <<"c", "l", "o", "t", "h", "i", "n", "g">>,
     Name |-> "Clothing", Products |-> NilSlice]
Shoes ==
    [ID |-> 2, Code |-> <<"s", "h", "o", "e", "s">>, Name |-> "Shoes",
     Products |-> NilSlice]

CategoryPool == <<Clothing, Shoes>>

\* 100.50, 20, 50, 100.5
PricePool ==
    <<Dec("heap", 10050, 0 - 2), Dec("heap", 20, 0), Dec("heap", 50, 0),
      Dec("heap", 1005, 0 - 1)>>

\* prices of variants read from the table: 0.00, 120, 0
RowVariantPrices ==
    <<Dec("heap", 0, 0 - 2), Dec("heap", 120, 0), Dec("heap", 0, 0)>>

\* prices of variants handed to prepareResponse directly: the constant
\* decimal.Zero, a zero that is another value (0.00), and 120
VariantPrices == {DecimalZero, Dec("heap", 0, 0 - 2), Dec("heap", 120, 0)}

Cycle(pool, i) == pool[((i - 1) % Len(pool)) + 1]

VariantNames == <<"Small", "Medium", "Large">>

ProductCode(i) == <<"P", "R", "O", "D">> \o <<"0", "0", Digits[(i % 10) + 1]>>

\* the j-th variant of product i, with the given price
VariantOf(i, j, price) ==
    [ID        |-> 10 * i + j,
     Name      |-> Cycle(VariantNames, j),
     SKU       |-> ProductCode(i) \o <<"-", Digits[(j % 10) + 1]>>,
     Price     |-> price,
     ProductID |-> i]

\* product i carrying the variants vs
ProductWith(i, vs) ==
    [ID       |-> i,
     Code     |-> ProductCode(i),
     Price    |-> Cycle(PricePool, i),
     Category |-> Cycle(CategoryPool, i),
     Variants |-> vs]

\* row i of the product table: i % 3 variants
Row(i) ==
    ProductWith(i, Slice([j \in 1..(i % 3) |->
                             VariantOf(i, j, Cycle(RowVariantPrices, i + j))]))

Stores == {{Row(i) : i \in 1..n} : n \in 0..MaxStore}

\* what a product list is built from: for each product "nil" (a nil
\* Variants slice) or the prices of its variants
VariantChoices(k) == [1..k -> VariantPrices]

VariantSliceOf(i, nil, prices) ==
    IF nil THEN NilSlice
    ELSE Slice([j \in 1..Len(prices) |-> VariantOf(i, j, prices[j])])

\* the list of the products 1..Len(choice), product i carrying choice[i]
ProductList(choice) ==
    Slice([i \in 1..Len(choice) |->
              ProductWith(i, VariantSliceOf(i, choice[i].nil, choice[i].prices))])

\* the contiguous parts of the ordered table, and the nil slice
Windows(rows) ==
    LET all == OrderByID(rows)
    IN  {NilSlice} \cup
        {Slice(SubSeq(all, a, b)) : a \in 1..(Len(all) + 1), b \in 0..Len(all)}

Alphabet == {"0", "1", "5", "-", "+", ".", "e", " "}

OtherTexts == {<<>>, <<"5">>}

OffsetTexts == {<<>>, <<"1">>, <<"-", "1">>}
LimitTexts == {<<>>, <<"1">>, <<"1", "0", "0">>, <<"1", "0", "1">>}
PriceTexts == {<<>>, <<"5", "0">>, <<"1", "0", "0", ".", "5">>, <<"0">>}
CategoryTexts == {<<>>, <<"c", "l", "o", "t", "h", "i", "n", "g">>, <<"h", "a", "t", "s">>}

CodeTexts ==
    {<<>>, ProductCode(1), ProductCode(2), ProductCode(3), ProductCode(9),
     <<"p", "r", "o", "d", "0", "0", "1">>, <<"P", "R", "O", "D">> \o <<"0", "1">>,
     ProductCode(1) \o <<"1">>, ProductCode(1) \o <<"\n">>,
     <<" ">> \o ProductCode(1)}

----------------------------------------------------------------------------
(* The catalog server: requests are served one after the other against a   *)
(* product table that no handler writes.                                   *)

\* no request body
NoPayload == [form |-> "none", members |-> <<>>]

NoRequest ==
    [offset |-> <<>>, limit |-> <<>>, priceLessThan |-> <<>>,
     category |-> <<>>, code |-> <<>>, payload |-> NoPayload]

\* the connections of the concurrent server
Conns == {"c1", "c2"}

\* no connection.  pc is where the connection and its handler stand ("new":
\* open and waiting for a request, "call": in the handler before its
\* repository call, "respond": after it, "done": response written),
\* calls the repository calls it made, err and rows what the call returned,
\* seen the category table the call read, writes the responses written.
NoConn ==
    [pc |-> "idle", endpoint |-> "none", in |-> NoRequest, calls |-> <<>>,
     err |-> "", rows |-> NilSlice, seen |-> <<>>, writes |-> <<>>]

\* the process while main waits for a signal: the server listens and the
\* database connection is open
Running ==
    [pc |-> "serving", listening |-> TRUE, dbOpen |-> TRUE,
     shutdownErr |-> ""]

ServerAtRest ==
    /\ catStore = <<>>
    /\ catSeq = 0
    /\ conns = [c \in Conns |-> NoConn]
    /\ listed = NilSlice
    /\ pages = <<>>
    /\ proc = Running

Idle ==
    /\ op = "none"
    /\ req = NoRequest
    /\ asm = NoAssembly
    /\ filters = NoFilters
    /\ valid = FALSE
    /\ calls = <<>>
    /\ status = 0
    /\ errMsg = ""
    /\ resp = NoResponse
    /\ body = NoBody
    /\ repoErr = ""
    /\ ServerAtRest

Init ==
    /\ store \in Stores
    /\ Idle

\* what a handler leaves behind
Served(name, r, o) ==
    /\ op' = name
    /\ req' = r
    /\ filters' = o.filters
    /\ valid' = o.valid
    /\ calls' = o.calls
    /\ status' = o.w.status
    /\ errMsg' = o.w.errMsg
    /\ resp' = o.w.resp
    /\ body' = o.w.body
    /\ asm' = o.w.asm
    /\ repoErr' = o.err
    /\ UNCHANGED <<store, serverVars, listed, pages>>

\* GET /catalog
HandleGet ==
    \E offset \in OffsetTexts, limit \in LimitTexts, priceLimit \in PriceTexts,
       category \in CategoryTexts, dbErr \in BOOLEAN :
        Served("HandleGet",
               [NoRequest EXCEPT !.offset = offset, !.limit = limit,
                                 !.priceLessThan = priceLimit,
                                 !.category = category],
               HandleGetOutcome(store, offset, limit, priceLimit, category,
                                dbErr))

\* GET /catalog/{code}
HandleGetSpecific ==
    \E code \in CodeTexts, dbErr \in BOOLEAN :
        Served("HandleGetSpecific", [NoRequest EXCEPT !.code = code],
               HandleGetSpecificOutcome(store, code, dbErr))

\* prepareResponse called on its own, on any part of the table
CallPrepareResponse ==
    \E ps \in Windows(store), includeVariants \in BOOLEAN :
        /\ op' = "prepareResponse"
        /\ asm' = Assembly(InputAfter(ps, includeVariants), includeVariants)
        /\ resp' = prepareResponse(ps, includeVariants)
        /\ req' = NoRequest
        /\ filters' = NoFilters
        /\ valid' = FALSE
        /\ calls' = <<>>
        /\ status' = 0
        /\ errMsg' = ""
        /\ body' = NoBody
        /\ repoErr' = ""
        /\ UNCHANGED <<store, serverVars, listed, pages>>

Next == HandleGet \/ HandleGetSpecific \/ CallPrepareResponse

Spec == Init /\ [][Next]_vars

----------------------------------------------------------------------------
(* validateProductFilters on its own: one of the four strings ranges over  *)
(* every text of the alphabet, the three others over OtherTexts.           *)

\* the request in which string number which is t and the others a, b, c
FilterRequest(which, t, a, b, c) ==
    CASE which = 1 -> [NoRequest EXCEPT !.offset = t, !.limit = a,
                                        !.priceLessThan = b, !.category = c]
      [] which = 2 -> [NoRequest EXCEPT !.offset = a, !.limit = t,
                                        !.priceLessThan = b, !.category = c]
      [] which = 3 -> [NoRequest EXCEPT !.offset = a, !.limit = b,
                                        !.priceLessThan = t, !.category = c]
      [] which = 4 -> [NoRequest EXCEPT !.offset = a, !.limit = b,
                                        !.priceLessThan = c, !.category = t]

InitFilters ==
    /\ store = {}
    /\ op = "none"
    /\ \E which \in 1..4, k \in 0..MaxLen :
           \E t \in [1..k -> Alphabet], a, b, c \in OtherTexts :
               req = FilterRequest(which, t, a, b, c)
    /\ asm = NoAssembly
    /\ filters = NoFilters
    /\ valid = FALSE
    /\ calls = <<>>
    /\ status = 0
    /\ errMsg = ""
    /\ resp = NoResponse
    /\ body = NoBody
    /\ repoErr = ""
    /\ ServerAtRest

ValidateProductFilters ==
    /\ op = "none"
    /\ op' = "validateProductFilters"
    /\ filters' = validateProductFilters(req.offset, req.limit,
                                         req.priceLessThan, req.category)
    /\ UNCHANGED <<store, req, asm, valid, calls, status, errMsg, resp, body,
                   repoErr, serverVars, listed, pages>>

NextFilters == ValidateProductFilters

SpecFilters == InitFilters /\ [][NextFilters]_vars

----------------------------------------------------------------------------
(* validateProductCode on its own: on the well-formed codes and on every   *)
(* text up to MaxEdits single-character edits away from one.               *)

CodeAlphabet == {"P", "p", "D", "0", "5", "A", " ", "\n", "-", "U+0663"}

WellFormedCodes ==
    {<<"P", "R", "O", "D">> \o [i \in 1..CodeDigits |-> d] : d \in {"0", "7"}}

\* the texts one substitution, insertion or deletion away from s
Edits(s) ==
    {[s EXCEPT ![i] = c] : i \in 1..Len(s), c \in CodeAlphabet}
    \cup {SubSeq(s, 1, i) \o <<c>> \o Tail2(s, i + 1) :
             i \in 0..Len(s), c \in CodeAlphabet}
    \cup {SubSeq(s, 1, i - 1) \o Tail2(s, i + 1) : i \in 1..Len(s)}

RECURSIVE EditsUpTo(_, _)
EditsUpTo(S, n) ==
    IF n = 0 THEN S
    ELSE LET T == EditsUpTo(S, n - 1)
         IN  T \cup UNION {Edits(s) : s \in T}

CodeInputs(most) ==
    EditsUpTo(WellFormedCodes, most)
        \cup {<<>>, <<"P", "R", "O", "D">> \o <<"1">>, <<"P", "R", "O", "D">> \o <<"1", "2", "A">>,
              <<"U+041F", "U+0420", "U+041E", "U+0414", "0", "0", "1">>}

InitCode ==
    /\ store = {}
    /\ op = "none"
    /\ req \in {[NoRequest EXCEPT !.code = c] : c \in CodeInputs(MaxEdits)}
    /\ asm = NoAssembly
    /\ filters = NoFilters
    /\ valid = FALSE
    /\ calls = <<>>
    /\ status = 0
    /\ errMsg = ""
    /\ resp = NoResponse
    /\ body = NoBody
    /\ repoErr = ""
    /\ ServerAtRest

ValidateProductCode ==
    /\ op = "none"
    /\ op' = "validateProductCode"
    /\ valid' = validateProductCode(req.code)
    /\ UNCHANGED <<store, req, asm, filters, calls, status, errMsg, resp, body,
                   repoErr, serverVars, listed, pages>>

NextCode == ValidateProductCode

SpecCode == InitCode /\ [][NextCode]_vars

----------------------------------------------------------------------------
(* prepareResponse on its own: on every list of up to MaxProducts products *)
(* and both values of includeVariants.                                     *)

\* a nil Variants slice, or the prices of up to MaxVariants variants
VariantInputs ==
    {[nil |-> TRUE, prices |-> <<>>]} \cup
    {[nil |-> FALSE, prices |-> ps] :
        ps \in UNION {VariantChoices(k) : k \in 0..MaxVariants}}

InitPrepare ==
    /\ store = {}
    /\ op = "none"
    /\ req = NoRequest
    /\ \E iv \in BOOLEAN :
           \/ asm = [NoAssembly EXCEPT !.includeVariants = iv]
           \/ \E n \in 0..MaxProducts :
                  \E choice \in [1..n -> VariantInputs] :
                      asm = [called |-> FALSE, dbProducts |-> ProductList(choice),
                             includeVariants |-> iv]
    /\ filters = NoFilters
    /\ valid = FALSE
    /\ calls = <<>>
    /\ status = 0
    /\ errMsg = ""
    /\ resp = NoResponse
    /\ body = NoBody
    /\ repoErr = ""
    /\ ServerAtRest

ApplyPrepareResponse ==
    /\ op = "none"
    /\ op' = "prepareResponse"
    /\ asm' = [asm EXCEPT
                  !.called = TRUE,
                  !.dbProducts = InputAfter(asm.dbProducts, asm.includeVariants)]
    /\ resp' = prepareResponse(asm.dbProducts, asm.includeVariants)
    /\ UNCHANGED <<store, req, filters, valid, calls, status, errMsg, body,
                   repoErr, serverVars, listed, pages>>

\* the caller assembles the same slice once more
ApplyPrepareResponseAgain ==
    /\ op = "prepareResponse"
    /\ op' = "prepareResponseAgain"
    /\ asm' = [asm EXCEPT
                  !.dbProducts = InputAfter(asm.dbProducts, asm.includeVariants)]
    /\ resp' = prepareResponse(asm.dbProducts, asm.includeVariants)
    /\ UNCHANGED <<store, req, filters, valid, calls, status, errMsg, body,
                   repoErr, serverVars, listed, pages>>

NextPrepare == ApplyPrepareResponse \/ ApplyPrepareResponseAgain

SpecPrepare == InitPrepare /\ [][NextPrepare]_vars

----------------------------------------------------------------------------
(* Decimal numerals, read independently of Atoi: a text is an integer text *)
(* when it is an optional sign followed by digits, and it denotes n when   *)
(* its digits without leading zeros are the canonical numeral of n.        *)

AsciiDigits == {"0", "1", "2", "3", "4", "5", "6", "7", "8", "9"}

RECURSIVE Itoa(_)
Itoa(n) ==
    IF n < 10 THEN <<Digits[n + 1]>>
    ELSE Itoa(n \div 10) \o <<Digits[(n % 10) + 1]>>

Unsigned(s) == IF s # <<>> /\ s[1] \in {"+", "-"} THEN Tail(s) ELSE s

IsIntText(s) ==
    /\ Unsigned(s) # <<>>
    /\ \A i \in 1..Len(Unsigned(s)) : Unsigned(s)[i] \in AsciiDigits

RECURSIVE StripZeros(_)
StripZeros(s) ==
    IF Len(s) > 1 /\ s[1] = "0" THEN StripZeros(Tail(s)) ELSE s

IsZeroText(s) == StripZeros(Unsigned(s)) = <<"0">>

\* s denotes an integer >= 0
IsNaturalText(s) == IsIntText(s) /\ (s[1] = "-" => IsZeroText(s))

Numeral(s) == StripZeros(Unsigned(s))

LimitNumerals == {Itoa(n) : n \in 1..100}

----------------------------------------------------------------------------
(* Properties of validateProductFilters (SpecFilters). *)

Validated == op = "validateProductFilters"

\* C1: the Limit is the number written in the limit string when that number
\* is in 1..100, and the default 10 for every other string (empty, not an
\* integer, <= 0, > 100).
LimitIsParsedOrDefault ==
    Validated =>
        IF IsNaturalText(req.limit) /\ Numeral(req.limit) \in LimitNumerals
        THEN Itoa(filters.Limit) = Numeral(req.limit)
        ELSE filters.Limit = 10

LimitBoundaryPassed ==
    /\ Validated
    /\ req.limit = <<"1", "0", "0">>
    /\ filters.Limit = 100

\* C2: the Offset is the number written in the offset string when that
\* number is >= 0, however large, and 0 for every other string.
OffsetIsParsedOrZero ==
    Validated =>
        IF IsNaturalText(req.offset)
        THEN Itoa(filters.Offset) = Numeral(req.offset)
        ELSE filters.Offset = 0

LargeOffsetPassed ==
    /\ Validated
    /\ req.offset = <<"5", "5", "5">>
    /\ filters.Offset = 555

\* C3: PriceLessThan is nil when the price string is empty, is no decimal or
\* is a decimal <= 0, and points to exactly the parsed decimal when that is
\* > 0.
PriceIsPositiveOrUnset ==
    Validated =>
        LET p == NewFromString(req.priceLessThan)
        IN  IF req.priceLessThan # <<>> /\ p.ok /\ p.d.coef > 0
            THEN /\ ~filters.PriceLessThan.isNil
                 /\ filters.PriceLessThan.d = p.d
            ELSE filters.PriceLessThan = NilDecimal

SmallPriceSet ==
    /\ Validated
    /\ req.priceLessThan = <<"0", ".", "1">>
    /\ ~filters.PriceLessThan.isNil
    /\ filters.PriceLessThan.d.coef = 1
    /\ filters.PriceLessThan.d.exp = 0 - 1

----------------------------------------------------------------------------
(* Properties of GET /catalog (Spec). *)

\* C4: GET /catalog answers 200 or 500 only, and the filters it hands to
\* Repository.List have Offset >= 0, Limit in 1..100, PriceLessThan nil or
\* > 0, and the category string as given.
ListFiltersWithinBounds ==
    op = "HandleGet" =>
        /\ status \in {200, 500}
        /\ Len(calls) = 1
        /\ calls[1].fn = "List"
        /\ calls[1].filters.Offset >= 0
        /\ calls[1].filters.Limit >= 1
        /\ calls[1].filters.Limit <= 100
        /\ \/ calls[1].filters.PriceLessThan.isNil
           \/ calls[1].filters.PriceLessThan.d.coef > 0
        /\ calls[1].filters.Category = req.category

OutOfRangeQueryServed ==
    /\ op = "HandleGet"
    /\ status = 200
    /\ req.offset = <<"-", "1">>
    /\ req.limit = <<"1", "0", "1">>
    /\ req.priceLessThan = <<"0">>
    /\ calls[1].filters.Limit = 10

----------------------------------------------------------------------------
(* Properties of validateProductCode (SpecCode) and of GET /catalog/{code} *)
(* (Spec).                                                                 *)

\* seven characters: P, R, O, D and three ASCII digits
WellFormedCode(code) ==
    /\ Len(code) = 7
    /\ SubSeq(code, 1, 4) = <<"P", "R", "O", "D">>
    /\ \A i \in 5..7 : code[i] \in AsciiDigits

\* C5: validateProductCode accepts exactly the seven-character codes made
\* of PROD and three ASCII digits.
CodeValidIffWellFormed ==
    op = "validateProductCode" => (valid <=> WellFormedCode(req.code))

TrailingNewlineRejected ==
    /\ op = "validateProductCode"
    /\ req.code = <<"P", "R", "O", "D", "0", "0", "0", "\n">>
    /\ ~valid

\* C6: GET /catalog/{code} answers 400 without any repository call when the
\* code fails validateProductCode, and calls GetByCode exactly once, with
\* that code, when it passes.
InvalidCodeNeverReachesRepository ==
    op = "HandleGetSpecific" =>
        IF validateProductCode(req.code)
        THEN calls = <<GetByCodeCall(req.code)>> /\ status # 400
        ELSE calls = <<>> /\ status = 400

LowercaseCodeRejected ==
    /\ op = "HandleGetSpecific"
    /\ req.code = <<"p", "r", "o", "d", "0", "0", "1">>
    /\ status = 400
    /\ calls = <<>>

----------------------------------------------------------------------------
(* Properties of prepareResponse (SpecPrepare, Spec). *)

Given == asm.dbProducts.elems

\* the variants of the given products, as (product, variant) positions
VariantPositions ==
    UNION {{<<i, j>> : j \in 1..Len(Given[i].Variants.elems)} :
              i \in 1..Len(Given)}

\* C7: ProductsAvailable is the number of variants of all the given
\* products together, whatever includeVariants is.
ProductsAvailableCountsVariants ==
    asm.called => resp.ProductsAvailable = Cardinality(VariantPositions)

TwoAndNoVariantsCounted ==
    /\ asm.called
    /\ Len(Given) = 2
    /\ Len(Given[1].Variants.elems) = 2
    /\ Len(Given[2].Variants.elems) = 0
    /\ resp.ProductsAvailable = 2

\* C8: every emitted variant whose stored price is zero, in whatever
\* representation, carries the price of the first product, and every other
\* emitted variant its own price.
ZeroPricedVariantInherits ==
    (asm.called /\ asm.includeVariants /\ Len(Given) > 0) =>
        \A j \in 1..Len(resp.Variants.elems) :
            resp.Variants.elems[j].Price =
                IF Given[1].Variants.elems[j].Price.coef = 0
                THEN Given[1].Price
                ELSE Given[1].Variants.elems[j].Price

\* C9: with includeVariants and at least one product, the emitted variants
\* are those of the first product, as many and in the same order, with ID,
\* Name, SKU and ProductID unchanged.
VariantsAreThoseOfFirstProduct ==
    (asm.called /\ asm.includeVariants /\ Len(Given) > 0) =>
        /\ ~resp.Variants.isNil
        /\ Len(resp.Variants.elems) = Len(Given[1].Variants.elems)
        /\ \A j \in 1..Len(resp.Variants.elems) :
               LET out == resp.Variants.elems[j]
                   src == Given[1].Variants.elems[j]
               IN  /\ out.ID = src.ID
                   /\ out.Name = src.Name
                   /\ out.SKU = src.SKU
                   /\ out.ProductID = src.ProductID
                   /\ out.ProductID = Given[1].ID

SecondProductVariantsLeftOut ==
    /\ asm.called
    /\ asm.includeVariants
    /\ Len(Given) = 2
    /\ Len(Given[1].Variants.elems) = 1
    /\ Len(Given[2].Variants.elems) = 2
    /\ Len(resp.Variants.elems) = 1
    /\ resp.ProductsAvailable = 3

\* C10: the variants field is nil, and absent from the JSON, whenever
\* includeVariants is false or no product is given; no 200 response of
\* GET /catalog has it.
VariantsAbsentUnlessRequested ==
    /\ (asm.called /\ (~asm.includeVariants \/ Len(Given) = 0)) =>
           /\ resp.Variants = NilSlice
           /\ "variants" \notin EncodeJSON(resp).keys
    /\ (op = "HandleGet" /\ status = 200) =>
           /\ resp.Variants = NilSlice
           /\ "variants" \notin body.keys

ListedVariantsNotEmitted ==
    /\ op = "HandleGet"
    /\ status = 200
    /\ Len(Given) >= 2
    /\ resp.ProductsAvailable >= 2
    /\ "variants" \notin body.keys

----------------------------------------------------------------------------
(* The detail response of products without variants and of codes that     *)
(* match no row.                                                           *)

\* the request was GET /catalog/{code} and was answered 200
DetailServed == op = "HandleGetSpecific" /\ status = StatusOK

\* C11 as stated: in the 200 response of GET /catalog/{code} for a product
\* with zero variants the JSON object has a variants field, and its value is
\* the empty array.
EmptyVariantsFieldPresent ==
    (DetailServed /\ Len(Given[1].Variants.elems) = 0) =>
        /\ "variants" \in body.keys
        /\ body.variants = <<>>

\* C11, amended: for a product with zero variants prepareResponse returns a
\* Variants slice that is empty and not nil, and the JSON object written for
\* GET /catalog/{code} has no variants field at all.
EmptyVariantsFieldOmitted ==
    (DetailServed /\ Len(Given[1].Variants.elems) = 0) =>
        /\ resp.Variants = Slice(<<>>)
        /\ body.keys = {"products", "products_available"}

StoredProductWithoutVariantsServed ==
    /\ DetailServed
    /\ req.code = ProductCode(3)
    /\ Given[1].ID = 3
    /\ Given[1].Variants = Slice(<<>>)
    /\ resp.Variants = Slice(<<>>)
    /\ "variants" \notin body.keys

\* C12: GET /catalog/{code} with a well-formed code that no row carries,
\* the repository call not failing, is answered 200 with exactly one product
\* entry, of empty code, empty category and price 0, and with
\* products_available = 0: the zero-valued product the repository returned,
\* assembled like any other.
UnknownCodeServedAsEmptyProduct ==
    (/\ op = "HandleGetSpecific"
     /\ validateProductCode(req.code)
     /\ repoErr = ""
     /\ \A p \in store : p.Code # req.code) =>
        /\ status = StatusOK
        /\ errMsg = ""
        /\ calls = <<GetByCodeCall(req.code)>>
        /\ asm = Assembly(Slice(<<ZeroProduct>>), TRUE)
        /\ body.products =
               Slice(<<[Code |-> <<>>, Price |-> [coef |-> 0, exp |-> 0],
                        Category |-> ""]>>)
        /\ body.products_available = 0
        /\ "variants" \notin body.keys

UnknownCodeAnswered ==
    /\ DetailServed
    /\ req.code = ProductCode(9)
    /\ Cardinality(store) = MaxStore
    /\ Len(body.products.elems) = 1
    /\ body.products.elems[1].Code = <<>>
    /\ body.products_available = 0

----------------------------------------------------------------------------
(* Package category: the body of POST /categories and its decoding, the    *)
(* category repository, and the two handlers.  The handlers only compare   *)
(* codes and names with each other and with "", so both are TLA+ strings   *)
(* here.                                                                   *)

StatusConflict == 409

\* the values a member of a JSON object can have
JsonString(s) == [type |-> "string", s |-> s]
JsonNumber == [type |-> "number", s |-> ""]
JsonNull == [type |-> "null", s |-> ""]

Member(key, value) == [key |-> key, value |-> value]

\* request bodies: text that is not JSON, no bytes at all, the JSON values
\* null and [], and a JSON object given by its members in order
TextBody == [form |-> "text", members |-> <<>>]
EmptyBody == [form |-> "empty", members |-> <<>>]
NullBody == [form |-> "null", members |-> <<>>]
ArrayBody == [form |-> "array", members |-> <<>>]
ObjectBody(members) == [form |-> "object", members |-> members]

\* keys of JSON members are sequences of characters, so that their case
\* can be folded letter by letter; the ASCII capitals with their small
\* letters
LowerOf ==
    [A |-> "a", B |-> "b", C |-> "c", D |-> "d", E |-> "e", F |-> "f",
     G |-> "g", H |-> "h", I |-> "i", J |-> "j", K |-> "k", L |-> "l",
     M |-> "m", N |-> "n", O |-> "o", P |-> "p", Q |-> "q", R |-> "r",
     S |-> "s", T |-> "t", U |-> "u", V |-> "v", W |-> "w", X |-> "x",
     Y |-> "y", Z |-> "z"]

\* an ASCII letter in lower case, any other character as it is
ToLower(ch) == IF ch \in DOMAIN LowerOf THEN LowerOf[ch] ELSE ch

\* a key with the case of its letters folded
FoldKey(key) == [i \in 1..Len(key) |-> ToLower(key[i])]

\* the tags of CreateRequest: `json:"code"` and `json:"name"`
CodeTag == <<"c", "o", "d", "e">>
NameTag == <<"n", "a", "m", "e">>

\* the field of CreateRequest a key decodes into: encoding/json takes the
\* field whose tag is the key, and when there is none the field whose tag
\* equals the key with the case of the letters folded, whatever the
\* spelling (cOdE, NAME, nAmE); every other key is skipped
FieldOfKey(key) ==
    IF key = CodeTag THEN "code"
    ELSE IF key = NameTag THEN "name"
    ELSE LET folded == FoldKey(key)
         IN  IF folded = CodeTag THEN "code"
             ELSE IF folded = NameTag THEN "name"
             ELSE ""

\* CreateRequest{}
ZeroCreateRequest == [Code |-> "", Name |-> ""]

\* the members decoded one after the other into acc.req: a later member
\* overwrites an earlier one, null leaves the field alone, and a value
\* that is not a string is an UnmarshalTypeError reported at the end
RECURSIVE DecodeMembers(_, _)
DecodeMembers(members, acc) ==
    IF members = <<>> THEN acc
    ELSE LET m == Head(members)
             f == FieldOfKey(m.key)
             next == IF f = "" \/ m.value.type = "null" THEN acc
                     ELSE IF m.value.type # "string"
                          THEN [acc EXCEPT !.ok = FALSE]
                     ELSE IF f = "code"
                          THEN [acc EXCEPT !.req.Code = m.value.s]
                          ELSE [acc EXCEPT !.req.Name = m.value.s]
         IN  DecodeMembers(Tail(members), next)

\* json.NewDecoder(r.Body).Decode(&req): ok is err == nil
DecodeCreateRequest(payload) ==
    CASE payload.form = "object" ->
             DecodeMembers(payload.members,
                           [ok |-> TRUE, req |-> ZeroCreateRequest])
      [] payload.form = "null" -> [ok |-> TRUE, req |-> ZeroCreateRequest]
      [] OTHER -> [ok |-> FALSE, req |-> ZeroCreateRequest]

----------------------------------------------------------------------------
(* category.GormRepo over the category table, a sequence of rows in        *)
(* ascending id order.                                                     *)

DuplicateMessage == "category code already exists"

\* the connection opened by database.New reports a unique violation as
\* gorm.ErrDuplicatedKey
TranslateError == TRUE

\* a unique violation as the database words it
UniqueViolationMessage ==
    "duplicate key value violates unique constraint"

\* models.Category{Code: code, Name: name}
NewCategory(code, name) ==
    [ID |-> 0, Code |-> code, Name |-> name, Products |-> NilSlice]

\* GormRepo.ListAll without a database error: Find fills a slice that is
\* empty, not nil, when the table has no row
CatRepoListAll(rows) == Slice(rows)

\* the highest id of the table, which is in ascending id order
Top(rows) == IF rows = <<>> THEN 0 ELSE rows[Len(rows)].ID

\* what an INSERT that the database accepts leaves in the table once the
\* call has panicked, seq being the last value of the id sequence: the
\* INSERT takes the next value; under gorm's default transaction the row
\* is rolled back, without it the row is stored under that id
InsertEffects(seq) ==
    {[committed |-> b, ID |-> seq + 1] : b \in BOOLEAN}

\* the sequence has given at most MaxSkippedIDs values to inserts that
\* stored no row since the last row was stored
InsertAllowed(rows, seq) == seq - Top(rows) <= MaxSkippedIDs

\* the table with the new row under the id the sequence gave
Inserted(rows, newCategory, id) ==
    Append(rows, [newCategory EXCEPT !.ID = id])

CodeTaken(rows, code) == \E i \in 1..Len(rows) : rows[i].Code = code

\* Create returning the driver's error as it is
CatRepoCreateUntranslated(rows, newCategory, dbErr, ins) ==
    IF dbErr THEN [rows |-> rows, err |-> DbErrorMessage, panics |-> FALSE,
                   took |-> FALSE]
    ELSE IF CodeTaken(rows, newCategory.Code)
    THEN [rows |-> rows, err |-> UniqueViolationMessage, panics |-> FALSE,
          took |-> TRUE]
    ELSE [rows |-> IF ins.committed THEN Inserted(rows, newCategory, ins.ID)
                   ELSE rows,
          err |-> "", panics |-> TRUE, took |-> TRUE]

\* Create writing over the row that has the code (an upsert)
CatRepoCreateUpsert(rows, newCategory, dbErr, ins) ==
    IF dbErr THEN [rows |-> rows, err |-> DbErrorMessage, panics |-> FALSE,
                   took |-> FALSE]
    ELSE IF CodeTaken(rows, newCategory.Code)
    THEN [rows |-> [i \in 1..Len(rows) |->
                       IF rows[i].Code = newCategory.Code
                       THEN [rows[i] EXCEPT !.Name = newCategory.Name]
                       ELSE rows[i]],
          err |-> "", panics |-> TRUE, took |-> TRUE]
    ELSE [rows |-> IF ins.committed THEN Inserted(rows, newCategory, ins.ID)
                   ELSE rows,
          err |-> "", panics |-> TRUE, took |-> TRUE]

\* GormRepo.Create: the table afterwards, err.Error() ("": nil), whether
\* the call panics instead of returning, and whether the INSERT took a
\* value of the id sequence, which a refused INSERT does as well.  dbErr:
\* the database fails; ins: what an accepted INSERT leaves.  The code
\* column is unique: gorm.ErrDuplicatedKey becomes DuplicateMessage and
\* every other error is returned as it is.  Line 166 hands newCategory to
\* gorm's Create by value:
\* when the INSERT is accepted gorm writes the generated id back into the
\* value it was given, which is not addressable, and the call panics.
CatRepoCreate(rows, newCategory, dbErr, ins) ==
    IF dbErr THEN [rows |-> rows, err |-> DbErrorMessage, panics |-> FALSE,
                   took |-> FALSE]
    ELSE IF CodeTaken(rows, newCategory.Code)
    THEN [rows |-> rows,
          err |-> IF TranslateError THEN DuplicateMessage
                  ELSE UniqueViolationMessage,
          panics |-> FALSE, took |-> TRUE]
    ELSE [rows |-> IF ins.committed THEN Inserted(rows, newCategory, ins.ID)
                   ELSE rows,
          err |-> "", panics |-> TRUE, took |-> TRUE]

----------------------------------------------------------------------------
(* The handlers of package category, each as the outcome of one request:   *)
(* the repository call made, the error it returned, the category table     *)
(* afterwards and the response written.                                    *)

\* prepareResponse collecting the entries with append into a nil slice
CategoryResponsesAppended(categories) ==
    IF SliceLen(categories) = 0 THEN NilSlice
    ELSE Slice([i \in 1..SliceLen(categories) |->
                   [Code |-> categories.elems[i].Code,
                    Name |-> categories.elems[i].Name]])

\* lines 63-69: make([]Category, len(categories)) filled in order
CategoryResponses(categories) ==
    Slice([i \in 1..SliceLen(categories) |->
              [Code |-> categories.elems[i].Code,
               Name |-> categories.elems[i].Name]])

\* prepareResponse of package category
prepareCategoryResponse(categories) ==
    [Categories |-> CategoryResponses(categories)]

\* encoding/json on category.Response: `json:"categories"`
EncodeCategoryResponse(r) ==
    [keys |-> {"categories"}, categories |-> r.Categories]

CreatedMessage == "Category created successfully"

\* encoding/json on map[string]string{"message": CreatedMessage}
CreatedBody == [keys |-> {"message"}, message |-> CreatedMessage]

InvalidJSONMessage == "Invalid JSON"
RequiredMessage == "Code and name are required"

ListAllCall == [fn |-> "ListAll", category |-> NewCategory("", "")]
CreateCall(newCategory) == [fn |-> "Create", category |-> newCategory]

\* api.OKResponse(w, value) for a value encoded as json
OKResponseOf(r, json, given) ==
    [status |-> StatusOK, errMsg |-> "", resp |-> r, body |-> json,
     asm |-> given]

\* Handler.HandleGet of package category; dbErr: ListAll fails
CategoryHandleGetOutcome(rows, dbErr) ==
    LET categories == IF dbErr THEN NilSlice ELSE CatRepoListAll(rows)
        response == prepareCategoryResponse(categories)
    IN  [calls |-> <<ListAllCall>>,
         err |-> IF dbErr THEN DbErrorMessage ELSE "",
         rows |-> rows, took |-> FALSE,
         w |-> IF dbErr
               THEN ErrorResponse(StatusInternalServerError, DbErrorMessage)
               ELSE OKResponseOf(response, EncodeCategoryResponse(response),
                                 Assembly(categories, FALSE))]

\* nothing written: the handler panicked before its first write; net/http
\* recovers the panic and closes the connection
NoReply ==
    [status |-> 0, errMsg |-> "", resp |-> NoResponse, body |-> NoBody,
     asm |-> NoAssembly]

\* what HandlePost writes for the error Create returned
CreateReply(err) ==
    IF err = "" THEN OKResponseOf(NoResponse, CreatedBody, NoAssembly)
    ELSE IF err = DuplicateMessage THEN ErrorResponse(StatusConflict, err)
    ELSE ErrorResponse(StatusInternalServerError, err)

\* HandlePost rejecting a request only when both fields are empty
HandlePostBothEmpty(rows, payload, dbErr, ins) ==
    LET d == DecodeCreateRequest(payload)
        c == CatRepoCreate(rows, NewCategory(d.req.Code, d.req.Name), dbErr,
                           ins)
    IN  IF ~d.ok
        THEN [calls |-> <<>>, err |-> "", rows |-> rows, took |-> FALSE,
              w |-> ErrorResponse(StatusBadRequest, InvalidJSONMessage)]
        ELSE IF d.req.Code = "" /\ d.req.Name = ""
        THEN [calls |-> <<>>, err |-> "", rows |-> rows, took |-> FALSE,
              w |-> ErrorResponse(StatusBadRequest, RequiredMessage)]
        ELSE [calls |-> <<CreateCall(NewCategory(d.req.Code, d.req.Name))>>,
              err |-> c.err, rows |-> c.rows, took |-> c.took,
              w |-> IF c.panics THEN NoReply ELSE CreateReply(c.err)]

\* Handler.HandlePost; dbErr: Create fails for another reason than a
\* duplicate code; ins: what an accepted INSERT leaves.  HandlePost has no
\* recover: when Create panics it writes nothing
HandlePostOutcome(rows, payload, dbErr, ins) ==
    LET d == DecodeCreateRequest(payload)
        c == CatRepoCreate(rows, NewCategory(d.req.Code, d.req.Name), dbErr,
                           ins)
    IN  IF ~d.ok
        THEN [calls |-> <<>>, err |-> "", rows |-> rows, took |-> FALSE,
              w |-> ErrorResponse(StatusBadRequest, InvalidJSONMessage)]
        ELSE IF d.req.Code = "" \/ d.req.Name = ""
        THEN [calls |-> <<>>, err |-> "", rows |-> rows, took |-> FALSE,
              w |-> ErrorResponse(StatusBadRequest, RequiredMessage)]
        ELSE [calls |-> <<CreateCall(NewCategory(d.req.Code, d.req.Name))>>,
              err |-> c.err, rows |-> c.rows, took |-> c.took,
              w |-> IF c.panics THEN NoReply ELSE CreateReply(c.err)]

----------------------------------------------------------------------------
(* The category endpoints served one request after the other against a     *)
(* category table that POST /categories extends.                           *)

Hats == "hats"

\* rows of the category table
ClothingRow ==
    [ID |-> 1, Code |-> "clothing", Name |-> "Clothing", Products |-> NilSlice]
ShoesRow ==
    [ID |-> 2, Code |-> "shoes", Name |-> "Shoes", Products |-> NilSlice]

CodeAndName(code, name) ==
    ObjectBody(<<Member(CodeTag, JsonString(code)),
                 Member(NameTag, JsonString(name))>>)

\* {"cOdE":"hats","nAmE":"Hats"}: both keys in a spelling of their own
MixedCaseBody ==
    ObjectBody(<<Member(<<"c", "O", "d", "E">>, JsonString(Hats)),
                 Member(<<"n", "A", "m", "E">>, JsonString("Hats"))>>)

\* {"codes":"hats","name":"Hats"}: a key that is no tag in any case
OtherKeyBody ==
    ObjectBody(<<Member(<<"c", "o", "d", "e", "s">>, JsonString(Hats)),
                 Member(NameTag, JsonString("Hats"))>>)

\* {"code":"hats","CoDe":"","name":"Hats"}: the tag itself, then another
\* spelling of it with the empty string
RespeltCodeBody ==
    ObjectBody(<<Member(CodeTag, JsonString(Hats)),
                 Member(<<"C", "o", "D", "e">>, JsonString("")),
                 Member(NameTag, JsonString("Hats"))>>)

Payloads ==
    {TextBody, EmptyBody, NullBody, ArrayBody, ObjectBody(<<>>),
     MixedCaseBody, OtherKeyBody, RespeltCodeBody}
    \cup {CodeAndName(c, n) : c \in {"", Hats, ClothingRow.Code},
                              n \in {"", "Hats", "Caps"}}
    \cup {ObjectBody(<<Member(CodeTag, JsonString(Hats))>>),
          ObjectBody(<<Member(NameTag, JsonString("Hats"))>>),
          ObjectBody(<<Member(CodeTag, JsonNumber),
                       Member(NameTag, JsonString("Hats"))>>),
          ObjectBody(<<Member(<<"C", "o", "d", "e">>, JsonString(Hats)),
                       Member(<<"N", "A", "M", "E">>, JsonString("Hats")),
                       Member(<<"i", "d">>, JsonNumber)>>),
          ObjectBody(<<Member(CodeTag, JsonString(Hats)),
                       Member(NameTag, JsonString("Hats")),
                       Member(NameTag, JsonNull)>>),
          ObjectBody(<<Member(NameTag, JsonString("Caps")),
                       Member(CodeTag, JsonString(Hats)),
                       Member(CodeTag, JsonString(ClothingRow.Code))>>)}

CategoryTables == {<<>>, <<ClothingRow>>, <<ClothingRow, ShoesRow>>}

InitCategory ==
    /\ store = {}
    /\ op = "none"
    /\ req = NoRequest
    /\ asm = NoAssembly
    /\ filters = NoFilters
    /\ valid = FALSE
    /\ calls = <<>>
    /\ status = 0
    /\ errMsg = ""
    /\ resp = NoResponse
    /\ body = NoBody
    /\ repoErr = ""
    /\ catStore \in CategoryTables
    /\ catSeq = Top(catStore)
    /\ conns = [c \in Conns |-> NoConn]
    /\ listed = NilSlice
    /\ pages = <<>>
    /\ proc = Running

\* what a handler of package category leaves behind
CategoryServed(name, r, o) ==
    /\ op' = name
    /\ req' = r
    /\ calls' = o.calls
    /\ repoErr' = o.err
    /\ catStore' = o.rows
    /\ catSeq' = IF o.took THEN catSeq + 1 ELSE catSeq
    /\ status' = o.w.status
    /\ errMsg' = o.w.errMsg
    /\ resp' = o.w.resp
    /\ body' = o.w.body
    /\ asm' = o.w.asm
    /\ UNCHANGED <<store, filters, valid, conns, listed, proc, pages>>

\* GET /categories
CategoryHandleGet ==
    \E dbErr \in BOOLEAN :
        CategoryServed("CategoryHandleGet", NoRequest,
                       CategoryHandleGetOutcome(catStore, dbErr))

\* POST /categories
HandlePost ==
    \E payload \in Payloads :
        \E o \in {HandlePostOutcome(catStore, payload, dbErr, ins) :
                      dbErr \in BOOLEAN, ins \in InsertEffects(catSeq)} :
            /\ o.calls # <<>> => InsertAllowed(catStore, catSeq)
            /\ CategoryServed("HandlePost",
                              [NoRequest EXCEPT !.payload = payload], o)

\* prepareResponse of package category called on its own, on nil or on the
\* first rows of the table
CallPrepareCategoryResponse ==
    \E categories \in {NilSlice} \cup
                       {Slice(SubSeq(catStore, 1, n)) : n \in 0..Len(catStore)} :
        /\ op' = "prepareCategoryResponse"
        /\ req' = NoRequest
        /\ asm' = Assembly(categories, FALSE)
        /\ resp' = prepareCategoryResponse(categories)
        /\ body' = NoBody
        /\ calls' = <<>>
        /\ repoErr' = ""
        /\ status' = 0
        /\ errMsg' = ""
        /\ UNCHANGED <<store, filters, valid, serverVars, listed, pages>>

NextCategory == CategoryHandleGet \/ HandlePost \/ CallPrepareCategoryResponse

SpecCategory == InitCategory /\ [][NextCategory]_vars

----------------------------------------------------------------------------
(* Claims on the category endpoints. *)

\* C14: POST /categories with a body that does not decode is answered 400
\* "Invalid JSON"; with a body that decodes to an empty code or an empty
\* name it is answered 400 "Code and name are required"; in both cases
\* Create is not called and the category table is left as it was.  With
\* both fields non-empty Create is called exactly once, with that code and
\* name.  The second part names the outcome body by body, the keys cOdE
\* and nAmE being decoded like code and name.
PostValidatedBeforeCreate ==
    /\ [][op' = "HandlePost" =>
          LET d == DecodeCreateRequest(req'.payload)
          IN  IF ~d.ok
              THEN /\ status' = StatusBadRequest
                   /\ errMsg' = "Invalid JSON"
                   /\ calls' = <<>>
                   /\ catStore' = catStore
              ELSE IF d.req.Code = "" \/ d.req.Name = ""
              THEN /\ status' = StatusBadRequest
                   /\ errMsg' = "Code and name are required"
                   /\ calls' = <<>>
                   /\ catStore' = catStore
              ELSE /\ calls' = <<CreateCall(NewCategory(d.req.Code, d.req.Name))>>
                   /\ status' # StatusBadRequest]_vars
    /\ [][op' = "HandlePost" =>
              /\ req'.payload = MixedCaseBody =>
                     calls' = <<CreateCall(NewCategory(Hats, "Hats"))>>
              /\ req'.payload \in {OtherKeyBody, RespeltCodeBody,
                                   CodeAndName("", "Hats"), NullBody,
                                   ObjectBody(<<>>)} =>
                     /\ status' = StatusBadRequest
                     /\ errMsg' = "Code and name are required"
                     /\ calls' = <<>>
              /\ req'.payload \in {TextBody, EmptyBody, ArrayBody} =>
                     /\ status' = StatusBadRequest
                     /\ errMsg' = "Invalid JSON"
                     /\ calls' = <<>>]_vars

EmptyNameRejected ==
    /\ op = "HandlePost"
    /\ req.payload = CodeAndName(Hats, "")
    /\ status = StatusBadRequest
    /\ errMsg = RequiredMessage
    /\ calls = <<>>
    /\ catStore = <<ClothingRow>>

\* C15: POST /categories for a code the table already has is answered 409
\* with the duplicate message unless the store fails otherwise, is never
\* answered 200, and leaves every row as it was; 409 is written for no
\* other request; every other error of Create is answered 500 with its
\* message.
DuplicateCodeIsConflict ==
    [][(op' = "HandlePost" /\ calls' # <<>>) =>
          LET taken == CodeTaken(catStore, calls'[1].category.Code)
          IN  /\ taken => /\ status' \in {StatusConflict,
                                            StatusInternalServerError}
                          /\ catStore' = catStore
              /\ (taken /\ repoErr' # DbErrorMessage) =>
                     /\ status' = StatusConflict
                     /\ errMsg' = "category code already exists"
              /\ status' = StatusConflict => taken
              /\ repoErr' \notin {"", DuplicateMessage} =>
                     /\ status' = StatusInternalServerError
                     /\ errMsg' = repoErr'
                     /\ catStore' = catStore]_vars

TakenCodeRefused ==
    /\ op = "HandlePost"
    /\ req.payload = CodeAndName(ClothingRow.Code, "Caps")
    /\ status = StatusConflict
    /\ catStore = <<ClothingRow, ShoesRow>>

\* C16: GET /categories whose ListAll does not fail is answered 200 with a
\* categories array, never null, of one {code, name} entry per row of the
\* table, in the order of the table; prepareResponse gives such a
\* collection for every list of categories, the nil one included.
CategoriesListedInOrder ==
    /\ (op = "CategoryHandleGet" /\ repoErr = "") =>
           /\ status = StatusOK
           /\ calls = <<ListAllCall>>
           /\ body.keys = {"categories"}
           /\ ~body.categories.isNil
           /\ Len(body.categories.elems) = Len(catStore)
           /\ \A i \in 1..Len(catStore) :
                  body.categories.elems[i] =
                      [Code |-> catStore[i].Code, Name |-> catStore[i].Name]
    /\ op = "prepareCategoryResponse" =>
           /\ ~resp.Categories.isNil
           /\ Len(resp.Categories.elems) = Len(Given)
           /\ \A i \in 1..Len(Given) :
                  resp.Categories.elems[i] =
                      [Code |-> Given[i].Code, Name |-> Given[i].Name]

TwoCategoriesListed ==
    /\ op = "CategoryHandleGet"
    /\ status = StatusOK
    /\ Len(body.categories.elems) = 2
    /\ body.categories.elems[1] = [Code |-> "clothing", Name |-> "Clothing"]
    /\ body.categories.elems[2] = [Code |-> "shoes", Name |-> "Shoes"]

----------------------------------------------------------------------------
(* GormRepo.List on its own: on every product table of the model and on    *)
(* filters such as validateProductFilters builds them, an offset that is   *)
(* not negative and a limit of at least 1.                                 *)

\* 20, 50, 100.5, 100.50 and 101
Thresholds ==
    {Dec("heap", 20, 0), Dec("heap", 50, 0), Dec("heap", 1005, 0 - 1),
     Dec("heap", 10050, 0 - 2), Dec("heap", 101, 0)}

InitList ==
    /\ store \in Stores
    /\ op = "none"
    /\ req = NoRequest
    /\ asm = NoAssembly
    /\ \E offset \in 0..(MaxStore + 1), limit \in 1..(MaxStore + 1),
          category \in CategoryTexts,
          price \in {NilDecimal} \cup {PtrTo(t) : t \in Thresholds} :
           filters = [Offset |-> offset, Limit |-> limit,
                      PriceLessThan |-> price, Category |-> category]
    /\ valid = FALSE
    /\ calls = <<>>
    /\ status = 0
    /\ errMsg = ""
    /\ resp = NoResponse
    /\ body = NoBody
    /\ repoErr = ""
    /\ ServerAtRest

\* GormRepo.List(ctx, filters) without a database error
List ==
    /\ op = "none"
    /\ op' = "List"
    /\ calls' = <<ListCall(filters)>>
    /\ listed' = RepoList(store, filters)
    /\ UNCHANGED <<store, req, asm, filters, valid, status, errMsg, resp, body,
                   repoErr, serverVars, pages>>

NextList == List

SpecList == InitList /\ [][NextList]_vars


\* a price of at most two decimals in hundredths
Hundredths(d) ==
    CASE d.exp = 0 -> 100 * d.coef
      [] d.exp = 0 - 1 -> 10 * d.coef
      [] d.exp = 0 - 2 -> d.coef

\* the rows that pass every filter that is set
Selected ==
    {p \in store :
        /\ filters.Category # <<>> => p.Category.Code = filters.Category
        /\ ~filters.PriceLessThan.isNil =>
               Hundredths(p.Price) < Hundredths(filters.PriceLessThan.d)}

\* C17: List returns, without error and never as nil, rows that pass every
\* set filter (category code equal, price strictly below the threshold), in
\* ascending id order; the i-th returned row is the one with Offset + i - 1
\* selected rows before it, and min(Limit, selected - Offset) rows are
\* returned, none when nothing is selected.
ListReturnsSelectedWindow ==
    op = "List" =>
        LET out == listed.elems
            left == Cardinality(Selected) - filters.Offset
        IN  /\ ~listed.isNil
            /\ calls = <<ListCall(filters)>>
            /\ Len(out) = IF left <= 0 THEN 0
                          ELSE IF left < filters.Limit THEN left
                          ELSE filters.Limit
            /\ \A i \in 1..Len(out) :
                   /\ out[i] \in Selected
                   /\ Cardinality({p \in Selected : p.ID < out[i].ID}) =
                          filters.Offset + i - 1

ThresholdPriceLeftOut ==
    /\ op = "List"
    /\ Cardinality(store) = 3
    /\ filters = [Offset |-> 0, Limit |-> 3, Category |-> <<>>,
                  PriceLessThan |-> PtrTo(Dec("heap", 1005, 0 - 1))]
    /\ \E p \in store : p.ID = 1 /\ p.Price = Dec("heap", 10050, 0 - 2)
    /\ Len(listed.elems) = 2
    /\ listed.elems[1].ID = 2
    /\ listed.elems[2].ID = 3


----------------------------------------------------------------------------
(* The product entries of a catalog response. *)

\* C19: prepareResponse gives one product entry per given product, in the
\* given order, the i-th with the Code of the i-th product and the Name of
\* its Category; the collection is never nil, not even for a nil or empty
\* list, so the products field of a 200 response of GET /catalog is an
\* array and never null.
OneEntryPerProduct ==
    /\ asm.called =>
           /\ ~resp.Products.isNil
           /\ Len(resp.Products.elems) = Len(Given)
           /\ \A i \in 1..Len(Given) :
                  /\ resp.Products.elems[i].Code = Given[i].Code
                  /\ resp.Products.elems[i].Category = Given[i].Category.Name
    /\ (op = "HandleGet" /\ status = StatusOK) =>
           /\ "products" \in body.keys
           /\ ~body.products.isNil
           /\ Len(body.products.elems) = Len(Given)

NothingListedIsEmptyArray ==
    /\ op = "HandleGet"
    /\ status = StatusOK
    /\ store # {}
    /\ Given = <<>>
    /\ body.products = Slice(<<>>)


----------------------------------------------------------------------------
(* The server of cmd/server: net/http runs each request in a goroutine of  *)
(* its own, so the handlers interleave.  A handler takes three steps: it   *)
(* starts and validates, it makes its repository call, which is one        *)
(* statement on the database, and it writes its response.                  *)

Rejected(message) ==
    [pc |-> "done",
     writes |-> <<ErrorResponse(StatusBadRequest, message)>>]

Proceed == [pc |-> "call", writes |-> <<>>]

\* a handler up to its repository call: the response written on the way,
\* if any, and where the handler stands then
Begin(endpoint, in) ==
    LET d == DecodeCreateRequest(in.payload)
    IN  CASE endpoint = "HandleGetSpecific" ->
                 IF validateProductCode(in.code) THEN Proceed
                 ELSE Rejected(InvalidCodeMessage)
          [] endpoint = "HandlePost" ->
                 IF ~d.ok THEN Rejected(InvalidJSONMessage)
                 ELSE IF d.req.Code = "" \/ d.req.Name = ""
                 THEN Rejected(RequiredMessage)
                 ELSE Proceed
          [] OTHER -> Proceed

\* the repository call of a handler on the tables as they are: the call,
\* the error and the rows it returns, the category table afterwards,
\* whether the call panics instead of returning, and whether it took a
\* value of the id sequence
RepoStep(endpoint, in, products, categories, dbErr, ins) ==
    LET failure == IF dbErr THEN DbErrorMessage ELSE ""
        f == validateProductFilters(in.offset, in.limit, in.priceLessThan,
                                    in.category)
        d == DecodeCreateRequest(in.payload)
        c == CatRepoCreate(categories, NewCategory(d.req.Code, d.req.Name),
                           dbErr, ins)
    IN  CASE endpoint = "HandleGet" ->
                 [call |-> ListCall(f), err |-> failure,
                  rows |-> IF dbErr THEN NilSlice ELSE RepoList(products, f),
                  table |-> categories, panics |-> FALSE, took |-> FALSE]
          [] endpoint = "HandleGetSpecific" ->
                 [call |-> GetByCodeCall(in.code), err |-> failure,
                  rows |-> Slice(<<IF dbErr THEN ZeroProduct
                                   ELSE RepoGetByCode(products, in.code)>>),
                  table |-> categories, panics |-> FALSE, took |-> FALSE]
          [] endpoint = "CategoryHandleGet" ->
                 [call |-> ListAllCall, err |-> failure,
                  rows |-> IF dbErr THEN NilSlice
                           ELSE CatRepoListAll(categories),
                  table |-> categories, panics |-> FALSE, took |-> FALSE]
          [] endpoint = "HandlePost" ->
                 [call |-> CreateCall(NewCategory(d.req.Code, d.req.Name)),
                  err |-> c.err, rows |-> NilSlice, table |-> c.rows,
                  panics |-> c.panics, took |-> c.took]

\* Finish answering a failed call with a message of its own
FinishMasked(endpoint, err, rows) ==
    IF err # "" /\ err # DuplicateMessage
    THEN ErrorResponse(StatusInternalServerError, "internal server error")
    ELSE CASE endpoint = "HandleGet" -> OKResponse(rows, FALSE)
           [] endpoint = "HandleGetSpecific" -> OKResponse(rows, TRUE)
           [] endpoint = "CategoryHandleGet" ->
                  OKResponseOf(prepareCategoryResponse(rows),
                               EncodeCategoryResponse(prepareCategoryResponse(rows)),
                               Assembly(rows, FALSE))
           [] endpoint = "HandlePost" -> CreateReply(err)

\* the response a handler writes after its repository call returned err
\* and rows
Finish(endpoint, err, rows) ==
    IF endpoint = "HandlePost" THEN CreateReply(err)
    ELSE IF err # "" THEN ErrorResponse(StatusInternalServerError, err)
    ELSE CASE endpoint = "HandleGet" -> OKResponse(rows, FALSE)
           [] endpoint = "HandleGetSpecific" -> OKResponse(rows, TRUE)
           [] endpoint = "CategoryHandleGet" ->
                  OKResponseOf(prepareCategoryResponse(rows),
                               EncodeCategoryResponse(prepareCategoryResponse(rows)),
                               Assembly(rows, FALSE))

\* Held with the result kept in a field of the Handler, which all requests
\* of an endpoint share: a request that stands after its call overwrites
\* what another one left there
HeldInHandler(cs, c) ==
    LET later == {d \in DOMAIN cs \ {c} :
                     cs[d].endpoint = cs[c].endpoint /\ cs[d].pc = "respond"}
        d == CHOOSE d \in later : TRUE
    IN  IF later = {} THEN [err |-> cs[c].err, rows |-> cs[c].rows]
        ELSE [err |-> cs[d].err, rows |-> cs[d].rows]

\* what a handler builds its response from: its local variables, which
\* hold what its own repository call returned
Held(cs, c) == [err |-> cs[c].err, rows |-> cs[c].rows]

ServerRequests ==
    {[endpoint |-> "HandleGet", in |-> r] :
        r \in {NoRequest,
               [NoRequest EXCEPT !.category = Clothing.Code,
                                 !.limit = <<"1">>]}}
    \cup {[endpoint |-> "HandleGetSpecific",
           in |-> [NoRequest EXCEPT !.code = code]] :
             code \in {ProductCode(1), <<"p", "r", "o", "d", "0", "0", "1">>}}
    \cup {[endpoint |-> "CategoryHandleGet", in |-> NoRequest]}
    \cup {[endpoint |-> "HandlePost",
           in |-> [NoRequest EXCEPT !.payload = payload]] :
             payload \in {TextBody,
                          CodeAndName(Hats, "Hats"), CodeAndName(Hats, "Caps"),
                          CodeAndName(ClothingRow.Code, "Caps")}}

\* the product tables the server starts on: the empty and the full one
ServerStores == {{}, {Row(i) : i \in 1..MaxStore}}

InitServer ==
    /\ store \in ServerStores
    /\ op = "none"
    /\ req = NoRequest
    /\ asm = NoAssembly
    /\ filters = NoFilters
    /\ valid = FALSE
    /\ calls = <<>>
    /\ status = 0
    /\ errMsg = ""
    /\ resp = NoResponse
    /\ body = NoBody
    /\ repoErr = ""
    /\ catStore \in CategoryTables
    /\ catSeq = Top(catStore)
    /\ catStore = IF store = {} THEN <<ClothingRow>>
                  ELSE <<ClothingRow, ShoesRow>>
    /\ conns = [c \in Conns |-> NoConn]
    /\ listed = NilSlice
    /\ pages = <<>>
    /\ proc = Running

catalogVars ==
    <<store, op, req, filters, valid, calls, status, errMsg, asm, resp, body,
      repoErr, listed, pages>>

\* the listener accepts a connection
Accept(c) ==
    /\ proc.listening
    /\ proc.pc # "exited"
    /\ conns[c].pc = "idle"
    /\ conns' = [conns EXCEPT ![c].pc = "new"]
    /\ UNCHANGED <<catalogVars, catStore, catSeq, proc>>

\* a request arrives on the open connection c and its handler runs up to
\* its repository call, or to the return after its validation response
Receive(c) ==
    /\ proc.pc # "exited"
    /\ conns[c].pc = "new"
    /\ \E r \in ServerRequests :
           conns' = [conns EXCEPT ![c] =
                        [NoConn EXCEPT !.pc = Begin(r.endpoint, r.in).pc,
                                       !.endpoint = r.endpoint,
                                       !.in = r.in,
                                       !.writes = Begin(r.endpoint, r.in).writes]]
    /\ UNCHANGED <<catalogVars, catStore, catSeq, proc>>

\* the repository call of the handler on connection c; dbErr: it fails, as
\* every call does once the database connection is closed; a call that
\* panics ends the handler without a response
RepoCall(c) ==
    /\ proc.pc # "exited"
    /\ conns[c].pc = "call"
    /\ conns[c].endpoint = "HandlePost" => InsertAllowed(catStore, catSeq)
    /\ \E dbErr \in (IF proc.dbOpen THEN BOOLEAN ELSE {TRUE}),
          ins \in InsertEffects(catSeq) :
           LET s == RepoStep(conns[c].endpoint, conns[c].in, store, catStore,
                             dbErr, ins)
           IN  /\ conns' = [conns EXCEPT ![c].pc = IF s.panics THEN "panicked"
                                                  ELSE "respond",
                                         ![c].calls = Append(@, s.call),
                                         ![c].err = s.err,
                                         ![c].rows = s.rows,
                                         ![c].seen = catStore]
               /\ catStore' = s.table
               /\ catSeq' = IF s.took THEN catSeq + 1 ELSE catSeq
    /\ UNCHANGED <<catalogVars, proc>>

\* the handler on connection c writes its response and returns
Respond(c) ==
    /\ proc.pc # "exited"
    /\ conns[c].pc = "respond"
    /\ conns' = [conns EXCEPT
                    ![c].pc = "done",
                    ![c].writes =
                        Append(@, Finish(conns[c].endpoint,
                                         Held(conns, c).err,
                                         Held(conns, c).rows))]
    /\ UNCHANGED <<catalogVars, catStore, catSeq, proc>>

\* the connection is over: after its response, or closed by the server
\* after recovering the panic of its handler
Close(c) ==
    /\ proc.pc # "exited"
    /\ conns[c].pc \in {"done", "panicked"}
    /\ conns' = [conns EXCEPT ![c] = NoConn]
    /\ UNCHANGED <<catalogVars, catStore, catSeq, proc>>

NextServer ==
    \E c \in Conns :
        Accept(c) \/ Receive(c) \/ RepoCall(c) \/ Respond(c) \/ Close(c)

SpecServer == InitServer /\ [][NextServer]_vars


----------------------------------------------------------------------------
(* Claims on the server as a whole. *)

\* the response of a handler run alone, in one piece, on the given tables
ServedAlone(endpoint, in, products, categories, dbErr) ==
    CASE endpoint = "HandleGet" ->
             HandleGetOutcome(products, in.offset, in.limit, in.priceLessThan,
                              in.category, dbErr).w
      [] endpoint = "HandleGetSpecific" ->
             HandleGetSpecificOutcome(products, in.code, dbErr).w
      [] endpoint = "CategoryHandleGet" ->
             CategoryHandleGetOutcome(categories, dbErr).w
      [] endpoint = "HandlePost" ->
             HandlePostOutcome(categories, in.payload, dbErr,
                               [committed |-> FALSE, ID |-> 0]).w

\* C13: on each of the four endpoints, when the repository call returned
\* an error other than the duplicate-code one, the handler made exactly that
\* one call, writes nothing but one 500 response carrying the error's
\* message, and no success body.
RepositoryErrorAnswered500 ==
    \A c \in Conns :
        (conns[c].err # "" /\ conns[c].err # DuplicateMessage) =>
            /\ Len(conns[c].calls) = 1
            /\ conns[c].pc \in {"respond", "done"}
            /\ conns[c].pc = "respond" => conns[c].writes = <<>>
            /\ conns[c].pc = "done" =>
                   conns[c].writes =
                       <<[status |-> StatusInternalServerError,
                          errMsg |-> conns[c].err, resp |-> NoResponse,
                          body |-> NoBody, asm |-> NoAssembly]>>

CreateAndListFailed ==
    /\ conns["c1"].endpoint = "HandlePost"
    /\ conns["c1"].pc = "done"
    /\ conns["c1"].err = DbErrorMessage
    /\ conns["c1"].writes[1].status = StatusInternalServerError
    /\ conns["c2"].endpoint = "HandleGet"
    /\ conns["c2"].pc = "done"
    /\ conns["c2"].err = DbErrorMessage
    /\ conns["c2"].writes[1].errMsg = DbErrorMessage

\* C18: a request makes at most one repository call and gets exactly one
\* response, there when its handler is over and not before; a request
\* answered 400 made no call; and once the response is written the handler
\* takes no further step: its connection stays as it is until it is closed.
OneCallOneResponse ==
    /\ [](\A c \in Conns :
             /\ Len(conns[c].calls) <= 1
             /\ Len(conns[c].writes) <= 1
             /\ conns[c].writes # <<>> <=> conns[c].pc \in {"done", "panicked"}
             /\ (conns[c].writes # <<>>
                    /\ conns[c].writes[1].status = StatusBadRequest) =>
                    conns[c].calls = <<>>
             /\ (conns[c].pc = "done"
                    /\ conns[c].writes[1].status # StatusBadRequest) =>
                    Len(conns[c].calls) = 1)
    /\ [][\A c \in Conns :
             conns[c].writes # <<>> =>
                 /\ conns'[c] \in {conns[c], NoConn}
                 /\ conns'[c] = NoConn => catStore' = catStore]_vars

\* C20: in every interleaving the response of a request is the one its
\* handler gives when run alone on the request's inputs and on the tables
\* as its repository call found them (none when that call panics),
\* whatever the other requests do and
\* whatever the tables have become since; the product table never changes,
\* and the category table changes only in the repository call of a
\* POST /categories.
ResponsesIndependent ==
    /\ [](\A c \in Conns :
             LET alone == ServedAlone(conns[c].endpoint, conns[c].in, store,
                                      conns[c].seen,
                                      conns[c].err = DbErrorMessage)
             IN  /\ conns[c].pc = "done" => conns[c].writes = <<alone>>
                 /\ conns[c].pc = "panicked" =>
                        conns[c].writes = <<>> /\ alone = NoReply)
    /\ [][/\ store' = store
          /\ catStore' # catStore =>
                 \E c \in Conns : /\ conns[c].endpoint = "HandlePost"
                                  /\ conns[c].pc = "call"
                                  /\ conns'[c].pc = "panicked"]_vars

ListedWhileOtherRefused ==
    /\ conns["c1"].endpoint = "CategoryHandleGet"
    /\ conns["c1"].pc = "done"
    /\ conns["c1"].writes[1].status = StatusOK
    /\ Len(conns["c1"].writes[1].body.categories.elems) = 2
    /\ conns["c2"].in.payload = CodeAndName(ClothingRow.Code, "Caps")
    /\ conns["c2"].pc = "done"
    /\ conns["c2"].writes[1].status = StatusConflict
    /\ catStore = <<ClothingRow, ShoesRow>>


----------------------------------------------------------------------------
(* The category table over time. *)

\* C21: whatever category requests are served, with whatever outcome, no
\* two rows of the category table have the same code, and every row stays
\* in the table with the id, code and name it has: requests only add rows.
CategoriesUniqueAndKept ==
    /\ [](\A i, j \in 1..Len(catStore) :
             catStore[i].Code = catStore[j].Code => i = j)
    /\ [][/\ Len(catStore') >= Len(catStore)
          /\ \A i \in 1..Len(catStore) : catStore'[i] = catStore[i]]_vars

CategoryKeptOnCreateOfItsCode ==
    /\ op = "HandlePost"
    /\ req.payload = CodeAndName(ClothingRow.Code, "Hats")
    /\ calls # <<>>
    /\ repoErr = DuplicateMessage
    /\ catStore = <<ClothingRow>>


-----------------------------------------------------------------------------
(* main: the server runs until an interrupt or SIGTERM cancels the context
   of signal.NotifyContext; main then calls srv.Shutdown with that context,
   closes the database connection and returns, which ends the process. *)

\* the handler on connection c has started and has not returned
InHandler(cs, c) == cs[c].pc \in {"call", "respond"}

ContextCanceled == "context canceled"

\* what http.Server.Shutdown returns when called with a context that is
\* already done, cs being the connections it has not closed: nil when none
\* is left, else the error of the context, at once and without waiting
ShutdownResult(cs) ==
    IF \E c \in Conns : cs[c].pc # "idle" THEN ContextCanceled ELSE ""

\* the connections after Shutdown has closed those in closed
WithoutConns(cs, closed) ==
    [c \in Conns |-> IF c \in closed THEN NoConn ELSE cs[c]]

\* an interrupt or SIGTERM arrives: ctx.Done() is closed and main goes on
Signal ==
    /\ proc.pc = "serving"
    /\ proc' = [proc EXCEPT !.pc = "shutdown"]
    /\ UNCHANGED <<catalogVars, catStore, catSeq, conns>>

\* srv.Shutdown(ctx): the listeners are closed; of the connections that
\* wait for a request the idle ones and those open for 5 s are closed and
\* the newly accepted ones are left; the call returns with the other
\* connections as they are, their handlers still running
Shutdown ==
    /\ proc.pc = "shutdown"
    /\ \E closed \in SUBSET {c \in Conns : conns[c].pc = "new"} :
           /\ conns' = WithoutConns(conns, closed)
           /\ proc' = [proc EXCEPT
                          !.pc = "closeDB",
                          !.listening = FALSE,
                          !.shutdownErr =
                              ShutdownResult(WithoutConns(conns, closed))]
    /\ UNCHANGED <<catalogVars, catStore, catSeq>>

\* closeDBCon()
CloseDB ==
    /\ proc.pc = "closeDB"
    /\ proc' = [proc EXCEPT !.pc = "stop", !.dbOpen = FALSE]
    /\ UNCHANGED <<catalogVars, catStore, catSeq, conns>>

\* stop() and the return of main: the process ends with whatever its
\* handlers were doing
Exit ==
    /\ proc.pc = "stop"
    /\ proc' = [proc EXCEPT !.pc = "exited"]
    /\ UNCHANGED <<catalogVars, catStore, catSeq, conns>>

InitMain ==
    /\ InitServer
    /\ store = {}
    /\ catStore = <<ClothingRow>>

NextMain ==
    \/ \E c \in Conns :
           Accept(c) \/ Receive(c) \/ RepoCall(c) \/ Respond(c) \/ Close(c)
    \/ Signal
    \/ Shutdown
    \/ CloseDB
    \/ Exit

SpecMain == InitMain /\ [][NextMain]_vars

\* C22: once main has closed the database connection no handler is running:
\* every request that was in flight at the signal has got its response
\* before closeDBCon is called, and no handler starts after Shutdown.
ShutdownIsGraceful ==
    ~proc.dbOpen => \A c \in Conns : ~InHandler(conns, c)


-----------------------------------------------------------------------------
(* prepareResponse and its input. *)

\* C23: a call of prepareResponse leaves the slice it was given as it was,
\* every product and every variant with its field values, a zero variant
\* price included; and assembling the slice a second time gives a response
\* equal to the first.  The variants the loop has appended are the
\* variants of the response.
PrepareResponseLeavesInput ==
    /\ [][op' \in {"prepareResponse", "prepareResponseAgain"} =>
              asm'.dbProducts = asm.dbProducts]_vars
    /\ [][op' = "prepareResponseAgain" => resp' = resp]_vars
    /\ [][(/\ op' \in {"prepareResponse", "prepareResponseAgain"}
           /\ asm.includeVariants
           /\ SliceLen(asm.dbProducts) > 0) =>
              LET first == asm.dbProducts.elems[1]
              IN  resp'.Variants.elems =
                      VariantLoop(LoopMemory(first), 1, first).out]_vars

ZeroPriceKeptAfterSecondAssembly ==
    /\ op = "prepareResponseAgain"
    /\ asm.includeVariants
    /\ Len(Given) = 2
    /\ Len(Given[1].Variants.elems) = 2
    /\ Given[1].Variants.elems[1].Price = DecimalZero
    /\ resp.Variants.elems[1].Price = Given[1].Price
    /\ Given[1].Price # DecimalZero


-----------------------------------------------------------------------------
(* Two requests creating the same category. *)

\* the request on connection c is a POST /categories that asks for the code
\* with some non-empty name
PostsCode(cs, c, code) ==
    LET d == DecodeCreateRequest(cs[c].in.payload)
    IN  /\ cs[c].endpoint = "HandlePost"
        /\ d.ok
        /\ d.req.Code = code
        /\ d.req.Name # ""

RowsWithCode(rows, code) == {i \in 1..Len(rows) : rows[i].Code = code}

\* C24: when two POST /categories requests with the same non-empty code and
\* non-empty names are both over, the code was absent when the first of
\* their Create calls was made and neither call failed for another reason,
\* then the one that called first was answered 200, the other was answered
\* 409, and the table has exactly one row with the code.
SameCodeCreatedOnce ==
    \A c, d \in Conns :
        (/\ c # d
         /\ PostsCode(conns, c, Hats) /\ PostsCode(conns, d, Hats)
         /\ conns[c].pc \in {"done", "panicked"}
         /\ conns[d].pc \in {"done", "panicked"}
         /\ ~CodeTaken(conns[c].seen, Hats)
         /\ conns[c].err # DbErrorMessage /\ conns[d].err # DbErrorMessage)
        => /\ Len(conns[c].writes) = 1
           /\ Len(conns[d].writes) = 1
           /\ conns[c].writes[1].status = StatusOK
           /\ conns[d].writes[1].status = StatusConflict
           /\ Cardinality(RowsWithCode(catStore, Hats)) = 1


-----------------------------------------------------------------------------
(* Paging through GormRepo.List: a caller keeps the category and price
   filters and the limit, and asks for the offsets 0, Limit, 2 * Limit, ...
   while the table stays as it is. *)

InitPages ==
    /\ InitList
    /\ filters.Offset = 0

\* the filters of the call for the next page
PageFilters == [filters EXCEPT !.Offset = Len(pages) * filters.Limit]

NextPage ==
    /\ Len(pages) < MaxPages
    /\ op' = "List"
    /\ calls' = Append(calls, ListCall(PageFilters))
    /\ listed' = RepoList(store, PageFilters)
    /\ pages' = Append(pages, RepoList(store, PageFilters))
    /\ UNCHANGED <<store, req, asm, filters, valid, status, errMsg, resp, body,
                   repoErr, serverVars>>

SpecPages == InitPages /\ [][NextPage]_vars

RECURSIVE Concatenated(_)
Concatenated(ps) ==
    IF ps = <<>> THEN <<>> ELSE Head(ps).elems \o Concatenated(Tail(ps))

\* C25: the pages fetched at the offsets 0, Limit, 2 * Limit, ... each hold
\* at most Limit products, no product is on two pages, the pages one after
\* the other are the selected products in ascending id order as far as the
\* offsets asked reach, and a page whose offset is at or beyond the number
\* of selected products is an empty list that is not nil.
PagesPartitionSelected ==
    LET all == OrderByID(Selected)
        L == filters.Limit
        reached == Min(Len(all), Len(pages) * L)
    IN  /\ \A k \in 1..Len(pages) :
               /\ ~pages[k].isNil
               /\ Len(pages[k].elems) <= L
               /\ (k - 1) * L >= Len(all) => pages[k].elems = <<>>
        /\ \A j, k \in 1..Len(pages) :
               j # k =>
                   \A a \in 1..Len(pages[j].elems),
                      b \in 1..Len(pages[k].elems) :
                       pages[j].elems[a].ID # pages[k].elems[b].ID
        /\ Concatenated(pages) = SubSeq(all, 1, reached)
        /\ Len(pages) * L >= Len(all) => Concatenated(pages) = all

ThreeProductsOnTwoPagesThenEmpty ==
    /\ Len(pages) = 3
    /\ filters.Limit = 2
    /\ filters.Category = <<>>
    /\ Cardinality(Selected) = 3
    /\ Len(pages[1].elems) = 2
    /\ Len(pages[2].elems) = 1
    /\ pages[3] = Slice(<<>>)
====
